---- MODULE Spec2Model ----
(***************************************************************************)
(* Model of the dRonin Actuator module (flight/Modules/Actuator/actuator.c) *)
(* The actuator task, its update flags, the interlock handshake, the mixer  *)
(* cache and the output path (post-process, scale, failsafe).               *)
(*                                                                          *)
(* Real numbers (C floats) are modelled as exact rationals <<n, d>>, d > 0, *)
(* kept in lowest terms, so two equal values are the same tuple.            *)
(* The system time is an unsigned counter of SYSTIME_BITS bits (32 in the   *)
(* source); all arithmetic on it wraps as uint32_t arithmetic does.         *)
(***************************************************************************)
EXTENDS Integers, Sequences, FiniteSets, TLC

\* ------------------------------------------------------------------ bounds
\* Number of mixer rows / output channels (ACTUATORCOMMAND_CHANNEL_NUMELEM).
MAX_MIX_ACTUATORS == 4
\* Width of the system-time counter in bits (uint32_t in the source).
SYSTIME_BITS == 8

\* ------------------------------------------------------- program constants
MAX_QUEUE_SIZE == 2
FAILSAFE_TIMEOUT_MS == 100
MIXER_SCALE == 128
INTERLOCK_HOLD_MS == 100
INTERLOCK_SLEEP_MS == 3
\* MIXERSETTINGS_MIXER1VECTOR_NUMELEM: ThrottleCurve1, ThrottleCurve2, Roll,
\* Pitch, Yaw, Accessory0..2
VECTOR_NUMELEM == 8

SYSTIME_MOD == 2 ^ SYSTIME_BITS
Channels == 1 .. MAX_MIX_ACTUATORS
Columns == 1 .. VECTOR_NUMELEM

\* -------------------------------------------------------------- rationals
Abs(x) == IF x < 0 THEN -x ELSE x

RECURSIVE GCD(_, _)
GCD(a, b) == IF b = 0 THEN a ELSE GCD(b, a % b)

Sign(x) == IF x < 0 THEN -1 ELSE 1

\* n/d in lowest terms with a positive denominator (d # 0)
Rat(n, d) ==
    LET g == GCD(Abs(n), Abs(d))
    IN  <<(Sign(d) * n) \div g, Abs(d) \div g>>

RInt(n) == <<n, 1>>
RAdd(a, b) == Rat(a[1] * b[2] + b[1] * a[2], a[2] * b[2])
RNeg(a) == <<-a[1], a[2]>>
RSub(a, b) == RAdd(a, RNeg(b))
RMul(a, b) == Rat(a[1] * b[1], a[2] * b[2])
\* b # 0
RDiv(a, b) == Rat(a[1] * b[2], a[2] * b[1])
RLt(a, b) == a[1] * b[2] < b[1] * a[2]
RLe(a, b) == a[1] * b[2] <= b[1] * a[2]
RGt(a, b) == RLt(b, a)
RGe(a, b) == RLe(b, a)
RMin(a, b) == IF RLt(b, a) THEN b ELSE a
RMax(a, b) == IF RLt(a, b) THEN b ELSE a
\* (int) x for x >= 0
RFloor(a) == a[1] \div a[2]

RECURSIVE RPow(_, _)
RPow(a, k) == IF k = 0 THEN RInt(1) ELSE RMul(a, RPow(a, k - 1))

RECURSIVE RSum(_, _)
\* sum of f[i] over i in 1..n
RSum(f, n) == IF n = 0 THEN RInt(0) ELSE RAdd(RSum(f, n - 1), f[n])

ZERO == RInt(0)
ONE == RInt(1)
MINUS_ONE == RInt(-1)

\* unsigned (uint32_t) arithmetic on the system time
USub(a, b) == (a - b + SYSTIME_MOD) % SYSTIME_MOD
UAdd(a, b) == (a + b) % SYSTIME_MOD

\* a float that is not a number (0/0, inf*0): produced by the tilt transform
\* when it divides by a zero thrust coefficient
NaN == <<0, 0>>
IsNaN(a) == a[2] = 0

\* ------------------------------------------------------------ enumerations
TYPE_DISABLED == "Disabled"
TYPE_MOTOR == "Motor"
TYPE_SERVO == "Servo"
TYPE_CAMERAROLL == "CameraRoll"
TYPE_CAMERAPITCH == "CameraPitch"
TYPE_CAMERAYAW == "CameraYaw"
\* any value of the type byte that is none of the six above (corrupt settings)
TYPE_UNKNOWN == "Unknown"

INTERLOCK_OK == "Ok"
INTERLOCK_STOPREQUEST == "StopRequest"
INTERLOCK_STOPPED == "Stopped"

ARMED_DISARMED == "Disarmed"
ARMED_ARMING == "Arming"
ARMED_ARMED == "Armed"

FLIGHTMODE_MANUAL == "Manual"
FLIGHTMODE_FAILSAFE == "Failsafe"

AIRFRAME_QUADX == "QuadX"
AIRFRAME_HELICP == "HeliCP"

ALARM_UNINITIALISED == "Uninitialised"
ALARM_CLEARED == "Cleared"
ALARM_CRITICAL == "Critical"

\* column indices of a mixer row / of the desired vector (1-based)
COL_THROTTLECURVE1 == 1
COL_THROTTLECURVE2 == 2
COL_ROLL == 3
COL_PITCH == 4
COL_YAW == 5
COL_ACCESSORY0 == 6

\* ------------------------------------------------- settings values (inputs)
\* Per-channel pulse ranges in microseconds.  The third is a reversed servo
\* (min > max), the fourth has its neutral outside [min, max].
RangeList ==
    << [Min |-> 1000, Neutral |-> 1000, Max |-> 2000],
       [Min |-> 1000, Neutral |-> 1500, Max |-> 2000],
       [Min |-> 2000, Neutral |-> 1400, Max |-> 1000],
       [Min |-> 1100, Neutral |-> 900,  Max |-> 1900] >>

Pick(list, i, k) == list[((i + k) % Len(list)) + 1]

\* An ActuatorSettings object: channel i gets range (i + k) of RangeList.
\* LowPowerStabilizationMaxTime is in seconds (a float in the source).
ActuatorSettingsCfg(k, spin, maxtime, fit) ==
    [ ChannelMin     |-> [i \in Channels |-> RInt(Pick(RangeList, i, k).Min)],
      ChannelNeutral |-> [i \in Channels |-> RInt(Pick(RangeList, i, k).Neutral)],
      ChannelMax     |-> [i \in Channels |-> RInt(Pick(RangeList, i, k).Max)],
      MotorsSpinWhileArmed |-> spin,
      LowPowerStabilizationMaxTime |-> maxtime,
      LowPowerStabilizationMaxPowerAdd |-> Rat(1, 10),
      MotorInputOutputCurveFit |-> fit ]

\* Mixer row types, rotated over the channels by k.
TypeList ==
    << TYPE_MOTOR, TYPE_MOTOR, TYPE_SERVO, TYPE_DISABLED,
       TYPE_CAMERAPITCH, TYPE_MOTOR, TYPE_CAMERAROLL, TYPE_CAMERAYAW >>

\* Mixer rows (int16 coefficients, 128 = 1.0): thrust + roll, thrust - roll,
\* roll only, curve2 + accessory0.
VectorList ==
    << <<128, 0, 128, 0, 0, 0, 0, 0>>,
       <<128, 0, -128, 0, 64, 0, 0, 0>>,
       <<0, 0, 128, 0, 0, 0, 0, 0>>,
       <<64, 128, 0, 0, 0, 64, 0, 0>> >>

IdentityCurve1 == << Rat(0, 1), Rat(1, 4), Rat(1, 2), Rat(3, 4), Rat(1, 1) >>
IdentityCurve2 == << Rat(-1, 1), Rat(-1, 2), Rat(0, 1), Rat(1, 2), Rat(1, 1) >>

\* A MixerSettings object.
MixerSettingsCfg(kt, kv, src) ==
    [ Type   |-> [i \in Channels |-> Pick(TypeList, i, kt)],
      Vector |-> [i \in Channels |-> Pick(VectorList, i, kv)],
      ThrottleCurve1 |-> IdentityCurve1,
      ThrottleCurve2 |-> IdentityCurve2,
      Curve2Source |-> src ]

\* A MixerSettings object with Motor rows only: channel i gets row i of
\* `vectors`.
MixerSettingsMotors(vectors) ==
    [ Type   |-> [i \in Channels |-> TYPE_MOTOR],
      Vector |-> [i \in Channels |-> Pick(vectors, i, Len(vectors) - 1)],
      ThrottleCurve1 |-> IdentityCurve1,
      ThrottleCurve2 |-> IdentityCurve2,
      Curve2Source |-> "Throttle" ]

\* A MixerSettings object whose last row has a type byte outside the enum.
MixerSettingsCorrupt(kt, kv, src) ==
    [ MixerSettingsCfg(kt, kv, src) EXCEPT !.Type[MAX_MIX_ACTUATORS] = TYPE_UNKNOWN ]

DesiredCfg(roll, thrust) ==
    [ Roll |-> roll, Pitch |-> ZERO, Yaw |-> ZERO, Thrust |-> thrust ]

ManualCfg(throttle) ==
    [ Throttle |-> throttle, Collective |-> ZERO,
      Accessory |-> << Rat(1, 2), ZERO, ZERO >> ]

FlightStatusCfg(armed, mode) == [ Armed |-> armed, FlightMode |-> mode ]

\* ------------------------------------------------------------------ state
VARIABLES
    \* position of the actuator task in actuator_task()
    pc,
    \* update flags (set by UAVObjCbSetFlag, cleared by the task)
    flight_status_updated, manual_control_cmd_updated,
    actuator_settings_updated, mixer_settings_updated,
    \* UAVObjects written by other modules, and the change callbacks of
    \* theirs that have been raised but have not run yet
    ActuatorSettings, MixerSettings, SystemSettingsAirframeType,
    ActuatorDesired, ManualControlCommand, FlightStatus, CameraDesired,
    cbPending,
    \* the ActuatorDesired event queue (number of queued events)
    queue,
    \* the output object, its access flag, the servo driver, the alarm
    ActuatorCommand, ActuatorCommandReadOnly, servo, servo_mode, alarm,
    \* file-scope statics of actuator.c
    types_mixer, motor_mixer, actuatorSettings, airframe_type,
    curve1, curve2, curve2_src, actuator_interlock,
    \* function statics of normalize_input_data
    manual_throt, flightStatus, last_pos_throttle_time,
    \* locals of actuator_task / normalize_input_data that live across steps
    desired_vect, desired, this_systime, exp_time,
    armed, spin_while_armed, stabilize_now, throttle_val, motor_vect,
    \* PIOS_Thread_Systime()
    systime,
    \* observation of the run: the kind of the task's last output action,
    \* what happened in the current loop iteration, and the time since the
    \* last tick that was armed with positive throttle
    last_output, iter, pos_age

flagVars == << flight_status_updated, manual_control_cmd_updated,
               actuator_settings_updated, mixer_settings_updated >>
settingsObjVars == << ActuatorSettings, MixerSettings, SystemSettingsAirframeType >>
inputObjVars == << ManualControlCommand, FlightStatus, CameraDesired >>
outVars == << ActuatorCommand, servo, alarm >>
mixerCacheVars == << types_mixer, motor_mixer, airframe_type, curve1, curve2, curve2_src >>
normStatics == << manual_throt, flightStatus, last_pos_throttle_time >>
tickLocals == << armed, spin_while_armed, stabilize_now, throttle_val, motor_vect >>

vars == << pc, flagVars, settingsObjVars, inputObjVars, ActuatorDesired, cbPending,
           queue, outVars, ActuatorCommandReadOnly, servo_mode,
           mixerCacheVars, actuatorSettings, actuator_interlock, normStatics,
           desired_vect, desired, this_systime, exp_time, tickLocals,
           systime, last_output, iter, pos_age >>

\* --------------------------------------------------------- pure functions
\* misc_math's linear_interpolate: the input is mapped onto the curve's
\* points and the two neighbouring points are blended.
linear_interpolate(input, curve, num_points, input_min, input_max) ==
    LET frac  == RDiv(RSub(input, input_min), RSub(input_max, input_min))
        scale == RMul(RMax(frac, ZERO), RInt(num_points - 1))
        raw1  == RFloor(scale)
        rest  == RSub(scale, RInt(raw1))
        idx2  == IF raw1 + 1 >= num_points THEN num_points - 1 ELSE raw1 + 1
        idx1  == IF raw1 + 1 >= num_points /\ raw1 >= num_points
                 THEN num_points - 1 ELSE raw1
    IN  RAdd(RMul(curve[idx1 + 1], RSub(ONE, rest)), RMul(curve[idx2 + 1], rest))

throt_curve(input, curve, num_points) ==
    linear_interpolate(input, curve, num_points, ZERO, ONE)

collective_curve(input, curve, num_points) ==
    linear_interpolate(input, curve, num_points, MINUS_ONE, ONE)

\* powapprox(x, e) for x > 0 and an integral exponent e
powapprox(x, e) == RPow(x, e)

\* a variant that clamps a reversed range like an ordinary one
scale_channel_no_reverse(value, idx) ==
    LET max     == actuatorSettings.ChannelMax[idx]
        min     == actuatorSettings.ChannelMin[idx]
        neutral == actuatorSettings.ChannelNeutral[idx]
        valueScaled ==
            IF RGe(value, ZERO)
            THEN RAdd(RMul(value, RSub(max, neutral)), neutral)
            ELSE RAdd(RMul(value, RSub(neutral, min)), neutral)
    IN  IF TRUE
        THEN LET hi == IF RGt(valueScaled, max) THEN max ELSE valueScaled
             IN  IF RLt(hi, min) THEN min ELSE hi
        ELSE LET lo == IF RLt(valueScaled, max) THEN max ELSE valueScaled
             IN  IF RGt(lo, min) THEN min ELSE lo

\* Convert a channel from -1/+1 to a pulse width in microseconds.
scale_channel(value, idx) ==
    LET max     == actuatorSettings.ChannelMax[idx]
        min     == actuatorSettings.ChannelMin[idx]
        neutral == actuatorSettings.ChannelNeutral[idx]
        valueScaled ==
            IF RGe(value, ZERO)
            THEN RAdd(RMul(value, RSub(max, neutral)), neutral)
            ELSE RAdd(RMul(value, RSub(neutral, min)), neutral)
    IN  IF RGt(max, min)
        THEN LET hi == IF RGt(valueScaled, max) THEN max ELSE valueScaled
             IN  IF RLt(hi, min) THEN min ELSE hi
        ELSE LET lo == IF RLt(valueScaled, max) THEN max ELSE valueScaled
             IN  IF RGt(lo, min) THEN min ELSE lo

\* a variant that parks a motor at its neutral pulse instead of its minimum
channel_failsafe_value_neutral(idx) ==
    CASE types_mixer[idx] = TYPE_MOTOR    -> actuatorSettings.ChannelNeutral[idx]
      [] types_mixer[idx] = TYPE_SERVO    -> actuatorSettings.ChannelNeutral[idx]
      [] types_mixer[idx] = TYPE_DISABLED -> MINUS_ONE
      [] OTHER                            -> ZERO

channel_failsafe_value(idx) ==
    CASE types_mixer[idx] = TYPE_MOTOR    -> actuatorSettings.ChannelMin[idx]
      [] types_mixer[idx] = TYPE_SERVO    -> actuatorSettings.ChannelNeutral[idx]
      [] types_mixer[idx] = TYPE_DISABLED -> MINUS_ONE
      [] OTHER                            -> ZERO

\* The Channel array set_failsafe() programs and publishes.
set_failsafe_Channel == [n \in Channels |-> channel_failsafe_value(n)]

\* Rotate a motor row by theta about the body Y axis (cosT = cos(theta),
\* sinT = sin(theta)).  A zero thrust coefficient makes d non-finite, and
\* every product of it with the (zero) force gives NaN.
transformActuatorMixture(motormix, cosT, sinT) ==
    LET curve1mix == RNeg(motormix[COL_THROTTLECURVE1])
        rollmix   == motormix[COL_ROLL]
        pitchmix  == motormix[COL_PITCH]
        yawmix    == motormix[COL_YAW]
        Fz        == RNeg(curve1mix)
        Frotated  == << RMul(sinT, Fz), ZERO, RMul(cosT, Fz) >>
        taurotated == << RMul(sinT, yawmix), ZERO, RMul(cosT, yawmix) >>
    IN  IF curve1mix = ZERO
        THEN [motormix EXCEPT ![COL_THROTTLECURVE1] = Frotated[3],
                              ![COL_ROLL] = NaN, ![COL_PITCH] = NaN, ![COL_YAW] = NaN]
        ELSE LET d == << RDiv(pitchmix, curve1mix), RNeg(RDiv(rollmix, curve1mix)), ZERO >>
                 temp == << RSub(RMul(d[2], Frotated[3]), RMul(Frotated[2], d[3])),
                            RSub(RMul(Frotated[1], d[3]), RMul(d[1], Frotated[3])),
                            RSub(RMul(d[1], Frotated[2]), RMul(Frotated[1], d[2])) >>
                 Mrotated == [k \in 1..3 |-> RAdd(temp[k], taurotated[k])]
             IN  [motormix EXCEPT ![COL_THROTTLECURVE1] = Frotated[3],
                                  ![COL_ROLL] = Mrotated[1],
                                  ![COL_PITCH] = Mrotated[2],
                                  ![COL_YAW] = Mrotated[3]]

\* The cached row compute_one_mixer() builds from one row of MixerSettings
\* (rotorTiltActual is 0.0: cos = 1, sin = 0).
compute_one_mixer(vals, type) ==
    LET row == IF type # TYPE_SERVO /\ type # TYPE_MOTOR
               THEN [i \in Columns |-> ZERO]
               ELSE [i \in Columns |-> Rat(vals[i], MIXER_SCALE)]
    IN  IF type = TYPE_MOTOR THEN transformActuatorMixture(row, ONE, ZERO) ELSE row

\* compute_mixer(): the new motor_mixer and types_mixer
compute_mixer_matrix(mixerSettings) ==
    [ct \in Channels |-> compute_one_mixer(mixerSettings.Vector[ct], mixerSettings.Type[ct])]

compute_mixer_types(mixerSettings) ==
    [ct \in Channels |-> mixerSettings.Type[ct]]

get_curve2_source(des, airframe, source) ==
    CASE source = "Throttle" ->
            IF airframe = AIRFRAME_HELICP THEN ManualControlCommand.Throttle ELSE des.Thrust
      [] source = "Roll" -> des.Roll
      [] source = "Pitch" -> des.Pitch
      [] source = "Yaw" -> des.Yaw
      [] source = "Collective" ->
            IF airframe = AIRFRAME_HELICP THEN des.Thrust ELSE ManualControlCommand.Collective
      [] source = "Accessory0" -> ManualControlCommand.Accessory[1]
      [] source = "Accessory1" -> ManualControlCommand.Accessory[2]
      [] source = "Accessory2" -> ManualControlCommand.Accessory[3]
      [] OTHER -> ZERO

fill_desired_vector(des, val1, val2, cmd_vector) ==
    [cmd_vector EXCEPT ![COL_THROTTLECURVE1] = val1,
                       ![COL_THROTTLECURVE2] = val2,
                       ![COL_ROLL] = des.Roll,
                       ![COL_PITCH] = des.Pitch,
                       ![COL_YAW] = des.Yaw]

\* One row of matrix_mul_check(motor_mixer, desired_vect): a NaN coefficient
\* makes the product NaN.
mix_row(row, vect) ==
    IF \E j \in Columns : IsNaN(row[j])
    THEN NaN
    ELSE RSum([j \in Columns |-> RMul(row[j], vect[j])], VECTOR_NUMELEM)

matrix_mul(mixer, vect) == [ct \in Channels |-> mix_row(mixer[ct], vect)]

\* ---------------------------------------------------- normalize_input_data
\* The part of normalize_input_data() after the update flags were served:
\* throttle source, arming, hang time, curves.  `now` is this_systime.
\* a variant in which a helicopter keeps the manual throttle in failsafe mode
throttle_source_no_failsafe ==
    IF airframe_type = AIRFRAME_HELICP THEN manual_throt ELSE desired.Thrust

throttle_source ==
    IF airframe_type = AIRFRAME_HELICP
    THEN IF flightStatus.FlightMode # FLIGHTMODE_FAILSAFE THEN manual_throt ELSE MINUS_ONE
    ELSE desired.Thrust

\* a variant with a window twice as long
hangtime_window_doubled ==
    RMul(RInt(2000), actuatorSettings.LowPowerStabilizationMaxTime)

\* line 631: 1000.0f * actuatorSettings.LowPowerStabilizationMaxTime
hangtime_window ==
    RMul(RInt(1000), actuatorSettings.LowPowerStabilizationMaxTime)

normalize_input_data(now) ==
    LET is_armed == flightStatus.Armed = ARMED_ARMED
        positive == is_armed /\ RGt(throttle_source, ZERO)
        in_window == /\ ~positive
                     /\ last_pos_throttle_time # 0
                     /\ RLt(RInt(USub(now, last_pos_throttle_time)), hangtime_window)
        throttle == IF in_window THEN ZERO ELSE throttle_source
        val1 == throt_curve(throttle, curve1, Len(curve1))
        val2 == collective_curve(get_curve2_source(desired, airframe_type, curve2_src),
                                 curve2, Len(curve2))
    IN  [ armed |-> is_armed,
          spin_while_armed |-> actuatorSettings.MotorsSpinWhileArmed,
          stabilize_now |-> positive \/ in_window,
          throttle_val |-> throttle,
          last_pos_throttle_time |->
              IF positive
              THEN IF actuatorSettings.LowPowerStabilizationMaxTime # ZERO
                   THEN now ELSE last_pos_throttle_time
              ELSE IF last_pos_throttle_time # 0 /\ ~in_window
                   THEN 0 ELSE last_pos_throttle_time,
          desired_vect |-> fill_desired_vector(desired, val1, val2, desired_vect) ]

\* ------------------------------------------- post_process_scale_and_commit
KnownTypes == { TYPE_DISABLED, TYPE_MOTOR, TYPE_SERVO,
                TYPE_CAMERAROLL, TYPE_CAMERAPITCH, TYPE_CAMERAYAW }

\* the switch's default case is reached
unknown_type == \E ct \in Channels : types_mixer[ct] \notin KnownTypes

\* first loop: the value of each channel after the per-type switch
scan_value(vect, ct) ==
    CASE types_mixer[ct] = TYPE_DISABLED -> MINUS_ONE
      [] types_mixer[ct] = TYPE_CAMERAPITCH ->
            IF CameraDesired.Handle THEN CameraDesired.Pitch ELSE MINUS_ONE
      [] types_mixer[ct] = TYPE_CAMERAROLL ->
            IF CameraDesired.Handle THEN CameraDesired.Roll ELSE MINUS_ONE
      [] types_mixer[ct] = TYPE_CAMERAYAW ->
            IF CameraDesired.Handle THEN CameraDesired.Roll ELSE MINUS_ONE
      [] OTHER -> vect[ct]

RSetMin(S) == CHOOSE x \in S : \A y \in S : RLe(x, y)
RSetMax(S) == CHOOSE x \in S : \A y \in S : RGe(x, y)

\* a variant whose low-side offset is not limited to the amount the lowest
\* channel is out of range
clip_management_no_min(vect) ==
    LET motors == { ct \in Channels : types_mixer[ct] = TYPE_MOTOR }
        finite == { vect[ct] : ct \in { m \in motors : ~IsNaN(vect[m]) } }
        num_motors == Cardinality(motors)
        neg_sum == RSum([ct \in Channels |->
                            IF ct \in motors /\ ~IsNaN(vect[ct]) /\ RLt(vect[ct], ZERO)
                            THEN vect[ct] ELSE ZERO], MAX_MIX_ACTUATORS)
    IN  IF finite = {}
        THEN [gain |-> ONE, offset |-> ZERO]
        ELSE LET min0 == RSetMin(finite)
                 max0 == RSetMax(finite)
                 compress == RGt(RSub(max0, min0), ONE)
                 gain == IF compress THEN RDiv(ONE, RSub(max0, min0)) ELSE ONE
                 max_chan == IF compress THEN RMul(max0, gain) ELSE max0
                 min_chan == IF compress THEN RMul(min0, gain) ELSE min0
                 neg_clip == RDiv(neg_sum, RInt(num_motors))
                 offset ==
                    IF RGt(max_chan, ONE) THEN RSub(ONE, max_chan)
                    ELSE IF RLt(min_chan, ZERO)
                         THEN RAdd(neg_clip,
                                   actuatorSettings.LowPowerStabilizationMaxPowerAdd)
                         ELSE ZERO
             IN  [gain |-> gain, offset |-> offset]

\* gain and offset of the clip management.  fminf/fmaxf skip a NaN; with no
\* (finite) motor value min_chan stays +INFINITY and max_chan -INFINITY and
\* no branch is taken.
clip_management(vect) ==
    LET motors == { ct \in Channels : types_mixer[ct] = TYPE_MOTOR }
        finite == { vect[ct] : ct \in { m \in motors : ~IsNaN(vect[m]) } }
        num_motors == Cardinality(motors)
        neg_sum == RSum([ct \in Channels |->
                            IF ct \in motors /\ ~IsNaN(vect[ct]) /\ RLt(vect[ct], ZERO)
                            THEN vect[ct] ELSE ZERO], MAX_MIX_ACTUATORS)
    IN  IF finite = {}
        THEN [gain |-> ONE, offset |-> ZERO]
        ELSE LET min0 == RSetMin(finite)
                 max0 == RSetMax(finite)
                 compress == RGt(RSub(max0, min0), ONE)
                 gain == IF compress THEN RDiv(ONE, RSub(max0, min0)) ELSE ONE
                 max_chan == IF compress THEN RMul(max0, gain) ELSE max0
                 min_chan == IF compress THEN RMul(min0, gain) ELSE min0
                 neg_clip == RDiv(neg_sum, RInt(num_motors))
                 offset ==
                    IF RGt(max_chan, ONE) THEN RSub(ONE, max_chan)
                    ELSE IF RLt(min_chan, ZERO)
                         THEN RMin(RNeg(min_chan),
                                   RAdd(neg_clip,
                                        actuatorSettings.LowPowerStabilizationMaxPowerAdd))
                         ELSE ZERO
             IN  [gain |-> gain, offset |-> offset]

\* a variant that leaves a disarmed motor at 0 (neutral) instead of -1
final_value_disarmed_zero(scanned, ct, clip, is_armed, spin, stabilize) ==
    IF types_mixer[ct] = TYPE_MOTOR
    THEN IF ~is_armed THEN ZERO
         ELSE IF ~stabilize THEN (IF ~spin THEN MINUS_ONE ELSE ZERO)
         ELSE IF IsNaN(scanned[ct]) THEN ZERO
         ELSE LET v == RAdd(RMul(scanned[ct], clip.gain), clip.offset)
              IN  IF RGt(v, ZERO)
                  THEN powapprox(v, actuatorSettings.MotorInputOutputCurveFit)
                  ELSE ZERO
    ELSE scanned[ct]

\* a variant that parks a stabilizing motor whose value is not positive at
\* -1 instead of 0
final_value_clamp_min(scanned, ct, clip, is_armed, spin, stabilize) ==
    IF types_mixer[ct] = TYPE_MOTOR
    THEN IF ~is_armed THEN MINUS_ONE
         ELSE IF ~stabilize THEN (IF ~spin THEN MINUS_ONE ELSE ZERO)
         ELSE IF IsNaN(scanned[ct]) THEN ZERO
         ELSE LET v == RAdd(RMul(scanned[ct], clip.gain), clip.offset)
              IN  IF RGt(v, ZERO)
                  THEN powapprox(v, actuatorSettings.MotorInputOutputCurveFit)
                  ELSE MINUS_ONE
    ELSE scanned[ct]

\* second loop: the final normalised value of a channel
final_value(scanned, ct, clip, is_armed, spin, stabilize) ==
    IF types_mixer[ct] = TYPE_MOTOR
    THEN IF ~is_armed THEN MINUS_ONE
         ELSE IF ~stabilize THEN (IF ~spin THEN MINUS_ONE ELSE ZERO)
         ELSE IF IsNaN(scanned[ct]) THEN ZERO
         ELSE LET v == RAdd(RMul(scanned[ct], clip.gain), clip.offset)
              IN  IF RGt(v, ZERO)
                  THEN powapprox(v, actuatorSettings.MotorInputOutputCurveFit)
                  ELSE ZERO
    ELSE scanned[ct]

\* motor_vect after both loops, and the command.Channel computed from it
post_process(vect, is_armed, spin, stabilize) ==
    LET scanned == [ct \in Channels |-> scan_value(vect, ct)]
        clip == clip_management(scanned)
        final == [ct \in Channels |->
                    final_value(scanned, ct, clip, is_armed, spin, stabilize)]
    IN  [ motor_vect |-> final,
          gain |-> clip.gain,
          offset |-> clip.offset,
          Channel |-> [ct \in Channels |-> scale_channel(final[ct], ct)] ]

\* ------------------------------------------------------------ UAVObj layer
\* ActuatorCommandChannelSet / ActuatorCommandSet: the object's Channel field
\* is replaced.
ActuatorCommandChannelSet(obj, Channel) == [obj EXCEPT !.Channel = Channel]

\* PIOS_Servo_SetMode(TimerUpdateFreq, ..., ChannelMax, ChannelMin)
ServoMode(settings) == [ChannelMax |-> settings.ChannelMax, ChannelMin |-> settings.ChannelMin]

\* observation: one more ActuatorCommand write / set_failsafe in this iteration
\* (the counts stop at 2: "more than one")
CountUp(n) == IF n < 2 THEN n + 1 ELSE n
IterStart ==
    [kind |-> "none", pubs |-> 0, failsafes |-> 0, read_only |-> FALSE, hold_age |-> 0,
     stopped |-> FALSE, after_stopped |-> FALSE, while_stopped |-> FALSE]
HoldAgeCap == INTERLOCK_HOLD_MS + 2 * INTERLOCK_SLEEP_MS + 2
PosAgeCap == 8
AgeUp(a, d, cap) == IF a + d > cap THEN cap ELSE a + d

\* a variant of set_failsafe() that leaves the alarm alone
set_failsafe_no_alarm ==
    /\ UNCHANGED alarm
    /\ servo' = set_failsafe_Channel
    /\ ActuatorCommand' = ActuatorCommandChannelSet(ActuatorCommand, set_failsafe_Channel)
    /\ last_output' = "failsafe"

\* a variant of set_failsafe() that programs the outputs and does not
\* publish them
set_failsafe_no_publish ==
    /\ alarm' = ALARM_CRITICAL
    /\ servo' = set_failsafe_Channel
    /\ UNCHANGED ActuatorCommand
    /\ last_output' = "failsafe"

\* set_failsafe(): alarm, servo outputs, ActuatorCommand.Channel
set_failsafe ==
    /\ alarm' = ALARM_CRITICAL
    /\ servo' = set_failsafe_Channel
    /\ ActuatorCommand' = ActuatorCommandChannelSet(ActuatorCommand, set_failsafe_Channel)
    /\ last_output' = "failsafe"

\* ------------------------------------------------------- the actuator task
\* actuator_task(), lines 667-677: connect the callbacks, clear the flag,
\* load the settings, program the servo mode
T_Start ==
    /\ pc = "start"
    /\ actuator_settings_updated' = FALSE
    /\ actuatorSettings' = ActuatorSettings
    /\ servo_mode' = ServoMode(actuatorSettings')
    /\ pc' = "start_failsafe"
    /\ UNCHANGED << flight_status_updated, manual_control_cmd_updated, mixer_settings_updated,
                    settingsObjVars, inputObjVars, ActuatorDesired, cbPending, queue, outVars,
                    ActuatorCommandReadOnly, mixerCacheVars,
                    actuator_interlock, normStatics, desired_vect, desired, this_systime,
                    exp_time, tickLocals, systime, last_output, iter, pos_age >>

\* lines 678-683: set_failsafe() before the main loop
T_StartFailsafe ==
    /\ pc = "start_failsafe"
    /\ set_failsafe
    /\ iter' = [iter EXCEPT !.kind = "start", !.pubs = CountUp(@), !.failsafes = CountUp(@)]
    /\ pc' = "loop_top"
    /\ UNCHANGED << flagVars, settingsObjVars, inputObjVars, ActuatorDesired, cbPending, queue,
                    ActuatorCommandReadOnly, servo_mode, mixerCacheVars, actuatorSettings,
                    actuator_interlock, normStatics, desired_vect, desired,
                    this_systime, exp_time, tickLocals, systime, pos_age >>

\* line 694-695: test and clear actuator_settings_updated (top of the loop)
T_ActuatorSettingsFlag ==
    /\ pc = "loop_top"
    /\ iter' = IterStart
    /\ IF actuator_settings_updated
       THEN /\ actuator_settings_updated' = FALSE
            /\ pc' = "as_get"
       ELSE /\ UNCHANGED actuator_settings_updated
            /\ pc' = "ms_flag"
    /\ UNCHANGED << flight_status_updated, manual_control_cmd_updated, mixer_settings_updated,
                    settingsObjVars, inputObjVars, ActuatorDesired, cbPending, queue, outVars,
                    ActuatorCommandReadOnly, servo_mode, mixerCacheVars, actuatorSettings,
                    actuator_interlock, normStatics, desired_vect, desired, this_systime,
                    exp_time, tickLocals, systime, last_output, pos_age >>

\* lines 696-701: ActuatorSettingsGet, PIOS_Servo_SetMode
T_ActuatorSettingsGet ==
    /\ pc = "as_get"
    /\ actuatorSettings' = ActuatorSettings
    /\ servo_mode' = ServoMode(actuatorSettings')
    /\ pc' = "ms_flag"
    /\ UNCHANGED << flagVars, settingsObjVars, inputObjVars, ActuatorDesired, cbPending, queue,
                    outVars, ActuatorCommandReadOnly, mixerCacheVars, actuator_interlock,
                    normStatics, desired_vect, desired, this_systime, exp_time, tickLocals,
                    systime, last_output, iter, pos_age >>

\* lines 704-705: test and clear mixer_settings_updated
T_MixerSettingsFlag ==
    /\ pc = "ms_flag"
    /\ IF mixer_settings_updated
       THEN /\ mixer_settings_updated' = FALSE
            /\ pc' = "ms_airframe"
       ELSE /\ UNCHANGED mixer_settings_updated
            /\ pc' = "wait"
    /\ UNCHANGED << flight_status_updated, manual_control_cmd_updated, actuator_settings_updated,
                    settingsObjVars, inputObjVars, ActuatorDesired, cbPending, queue, outVars,
                    ActuatorCommandReadOnly, servo_mode, mixerCacheVars, actuatorSettings,
                    actuator_interlock, normStatics, desired_vect, desired, this_systime,
                    exp_time, tickLocals, systime, last_output, iter, pos_age >>

\* line 706: SystemSettingsAirframeTypeGet
T_AirframeGet ==
    /\ pc = "ms_airframe"
    /\ airframe_type' = SystemSettingsAirframeType
    /\ pc' = "ms_compute"
    /\ UNCHANGED << flagVars, settingsObjVars, inputObjVars, ActuatorDesired, cbPending, queue,
                    outVars, ActuatorCommandReadOnly, servo_mode, types_mixer, motor_mixer,
                    curve1, curve2, curve2_src, actuatorSettings, actuator_interlock,
                    normStatics, desired_vect, desired, this_systime, exp_time, tickLocals,
                    systime, last_output, iter, pos_age >>

\* line 708: compute_mixer()
T_ComputeMixer ==
    /\ pc = "ms_compute"
    /\ types_mixer' = compute_mixer_types(MixerSettings)
    /\ motor_mixer' = compute_mixer_matrix(MixerSettings)
    /\ pc' = "ms_curves"
    /\ UNCHANGED << flagVars, settingsObjVars, inputObjVars, ActuatorDesired, cbPending, queue,
                    outVars, ActuatorCommandReadOnly, servo_mode, airframe_type,
                    curve1, curve2, curve2_src, actuatorSettings, actuator_interlock,
                    normStatics, desired_vect, desired, this_systime, exp_time, tickLocals,
                    systime, last_output, iter, pos_age >>

\* a variant that does not reload the curve2 source
T_CurvesGet_no_source ==
    /\ pc = "ms_curves"
    /\ curve1' = MixerSettings.ThrottleCurve1
    /\ curve2' = MixerSettings.ThrottleCurve2
    /\ UNCHANGED curve2_src
    /\ pc' = "wait"
    /\ UNCHANGED << flagVars, settingsObjVars, inputObjVars, ActuatorDesired, cbPending, queue,
                    outVars, ActuatorCommandReadOnly, servo_mode, types_mixer, motor_mixer,
                    airframe_type, actuatorSettings, actuator_interlock,
                    normStatics, desired_vect, desired, this_systime, exp_time, tickLocals,
                    systime, last_output, iter, pos_age >>

\* lines 711-713: the curves and the curve2 source
T_CurvesGet ==
    /\ pc = "ms_curves"
    /\ curve1' = MixerSettings.ThrottleCurve1
    /\ curve2' = MixerSettings.ThrottleCurve2
    /\ curve2_src' = MixerSettings.Curve2Source
    /\ pc' = "wait"
    /\ UNCHANGED << flagVars, settingsObjVars, inputObjVars, ActuatorDesired, cbPending, queue,
                    outVars, ActuatorCommandReadOnly, servo_mode, types_mixer, motor_mixer,
                    airframe_type, actuatorSettings, actuator_interlock,
                    normStatics, desired_vect, desired, this_systime, exp_time, tickLocals,
                    systime, last_output, iter, pos_age >>

\* lines 721-728: PIOS_Queue_Receive returned an event after `elapse` ms
T_Receive(elapse) ==
    /\ pc = "wait"
    /\ queue > 0
    /\ queue' = queue - 1
    /\ \E d \in elapse :
          /\ systime' = UAdd(systime, d)
          /\ pos_age' = IF pos_age < 0 THEN pos_age ELSE AgeUp(pos_age, d, PosAgeCap)
    /\ this_systime' = systime'
    /\ pc' = "interlock"
    /\ UNCHANGED << flagVars, settingsObjVars, inputObjVars, ActuatorDesired, cbPending,
                    outVars, ActuatorCommandReadOnly, servo_mode, mixerCacheVars,
                    actuatorSettings, actuator_interlock, normStatics, desired_vect, desired,
                    exp_time, tickLocals, last_output, iter >>

\* a variant of the timeout branch without its `continue`: the iteration
\* goes on into the tick
T_Timeout_no_continue(elapse) ==
    /\ pc = "wait"
    /\ queue = 0
    /\ \E d \in elapse :
          /\ systime' = UAdd(systime, d)
          /\ pos_age' = IF pos_age < 0 THEN pos_age ELSE AgeUp(pos_age, d, PosAgeCap)
    /\ set_failsafe
    /\ iter' = [iter EXCEPT !.kind = "timeout", !.pubs = CountUp(@), !.failsafes = CountUp(@)]
    /\ pc' = "interlock"
    /\ UNCHANGED << flagVars, settingsObjVars, inputObjVars, ActuatorDesired, cbPending, queue,
                    ActuatorCommandReadOnly, servo_mode, mixerCacheVars, actuatorSettings,
                    actuator_interlock, normStatics, desired_vect, desired, this_systime,
                    exp_time, tickLocals >>

\* lines 721-726: PIOS_Queue_Receive timed out (after `elapse` ms, the
\* FAILSAFE_TIMEOUT_MS of the call): set_failsafe() and back to the top
T_Timeout(elapse) ==
    /\ pc = "wait"
    /\ queue = 0
    /\ \E d \in elapse :
          /\ systime' = UAdd(systime, d)
          /\ pos_age' = IF pos_age < 0 THEN pos_age ELSE AgeUp(pos_age, d, PosAgeCap)
    /\ set_failsafe
    /\ iter' = [iter EXCEPT !.kind = "timeout", !.pubs = CountUp(@), !.failsafes = CountUp(@)]
    /\ pc' = "loop_top"
    /\ UNCHANGED << flagVars, settingsObjVars, inputObjVars, ActuatorDesired, cbPending, queue,
                    ActuatorCommandReadOnly, servo_mode, mixerCacheVars, actuatorSettings,
                    actuator_interlock, normStatics, desired_vect, desired, this_systime,
                    exp_time, tickLocals >>

\* a variant that enters the hold loop on STOPPED only
T_InterlockCheck_stopped ==
    /\ pc = "interlock"
    /\ IF actuator_interlock = INTERLOCK_STOPPED
       THEN /\ exp_time' = UAdd(this_systime, INTERLOCK_HOLD_MS)
            /\ iter' = [iter EXCEPT !.kind = "hold"]
            /\ pc' = "hold_while"
       ELSE /\ UNCHANGED << exp_time, iter >>
            /\ pc' = "norm"
    /\ UNCHANGED << flagVars, settingsObjVars, inputObjVars, ActuatorDesired, cbPending, queue,
                    outVars, ActuatorCommandReadOnly, servo_mode, mixerCacheVars,
                    actuatorSettings, actuator_interlock, normStatics, desired_vect, desired,
                    this_systime, tickLocals, systime, last_output, pos_age >>

\* lines 742-744: the interlock is read; not OK: exp_time and into the hold loop
T_InterlockCheck ==
    /\ pc = "interlock"
    /\ IF actuator_interlock # INTERLOCK_OK
       THEN /\ exp_time' = UAdd(this_systime, INTERLOCK_HOLD_MS)
            /\ iter' = [iter EXCEPT !.kind = "hold"]
            /\ pc' = "hold_while"
       ELSE /\ UNCHANGED << exp_time, iter >>
            /\ pc' = "norm"
    /\ UNCHANGED << flagVars, settingsObjVars, inputObjVars, ActuatorDesired, cbPending, queue,
                    outVars, ActuatorCommandReadOnly, servo_mode, mixerCacheVars,
                    actuatorSettings, actuator_interlock, normStatics, desired_vect, desired,
                    this_systime, tickLocals, systime, last_output, pos_age >>

\* a variant that stays in the hold loop only while a stop is requested
T_HoldWhile_not_request ==
    /\ pc = "hold_while"
    /\ IF actuator_interlock = INTERLOCK_STOPREQUEST
       THEN /\ pc' = "hold_if"
            /\ UNCHANGED servo_mode
       ELSE /\ servo_mode' = ServoMode(actuatorSettings)
            /\ pc' = "loop_top"
    /\ UNCHANGED << flagVars, settingsObjVars, inputObjVars, ActuatorDesired, cbPending, queue,
                    outVars, ActuatorCommandReadOnly, mixerCacheVars,
                    actuatorSettings, actuator_interlock, normStatics, desired_vect, desired,
                    this_systime, exp_time, tickLocals, systime, last_output, iter, pos_age >>

\* line 746: the hold loop's condition; lines 769-773 when it is left
T_HoldWhile ==
    /\ pc = "hold_while"
    /\ IF actuator_interlock # INTERLOCK_OK
       THEN /\ pc' = "hold_if"
            /\ UNCHANGED servo_mode
       ELSE /\ servo_mode' = ServoMode(actuatorSettings)
            /\ pc' = "loop_top"
    /\ UNCHANGED << flagVars, settingsObjVars, inputObjVars, ActuatorDesired, cbPending, queue,
                    outVars, ActuatorCommandReadOnly, mixerCacheVars,
                    actuatorSettings, actuator_interlock, normStatics, desired_vect, desired,
                    this_systime, exp_time, tickLocals, systime, last_output, iter, pos_age >>

\* a variant that takes every value but OK for a stop request
T_HoldIf_any_request ==
    /\ pc = "hold_if"
    /\ IF actuator_interlock # INTERLOCK_OK
       THEN /\ set_failsafe
            /\ iter' = [iter EXCEPT !.pubs = CountUp(@), !.failsafes = CountUp(@),
                                    !.after_stopped = @ \/ iter.stopped,
                                    !.while_stopped =
                                        @ \/ actuator_interlock = INTERLOCK_STOPPED]
            /\ this_systime' = systime
            /\ pc' = IF USub(exp_time, this_systime') > INTERLOCK_HOLD_MS
                     THEN "hold_write" ELSE "hold_sleep"
       ELSE /\ UNCHANGED << outVars, last_output, iter, this_systime >>
            /\ pc' = "hold_sleep"
    /\ UNCHANGED << flagVars, settingsObjVars, inputObjVars, ActuatorDesired, cbPending, queue,
                    ActuatorCommandReadOnly, servo_mode, mixerCacheVars,
                    actuatorSettings, actuator_interlock, normStatics, desired_vect, desired,
                    exp_time, tickLocals, systime, pos_age >>

\* a variant that compares with >= instead of >
T_HoldIf_ge ==
    /\ pc = "hold_if"
    /\ IF actuator_interlock = INTERLOCK_STOPREQUEST
       THEN /\ set_failsafe
            /\ iter' = [iter EXCEPT !.pubs = CountUp(@), !.failsafes = CountUp(@),
                                    !.after_stopped = @ \/ iter.stopped,
                                    !.while_stopped =
                                        @ \/ actuator_interlock = INTERLOCK_STOPPED]
            /\ this_systime' = systime
            /\ pc' = IF USub(exp_time, this_systime') >= INTERLOCK_HOLD_MS
                     THEN "hold_write" ELSE "hold_sleep"
       ELSE /\ UNCHANGED << outVars, last_output, iter, this_systime >>
            /\ pc' = "hold_sleep"
    /\ UNCHANGED << flagVars, settingsObjVars, inputObjVars, ActuatorDesired, cbPending, queue,
                    ActuatorCommandReadOnly, servo_mode, mixerCacheVars,
                    actuatorSettings, actuator_interlock, normStatics, desired_vect, desired,
                    exp_time, tickLocals, systime, pos_age >>

\* lines 755-760: on STOPREQUEST set_failsafe(), sample the time, decide
T_HoldIf ==
    /\ pc = "hold_if"
    /\ IF actuator_interlock = INTERLOCK_STOPREQUEST
       THEN /\ set_failsafe
            /\ iter' = [iter EXCEPT !.pubs = CountUp(@), !.failsafes = CountUp(@),
                                    !.after_stopped = @ \/ iter.stopped,
                                    !.while_stopped =
                                        @ \/ actuator_interlock = INTERLOCK_STOPPED]
            /\ this_systime' = systime
            /\ pc' = IF USub(exp_time, this_systime') > INTERLOCK_HOLD_MS
                     THEN "hold_write" ELSE "hold_sleep"
       ELSE /\ UNCHANGED << outVars, last_output, iter, this_systime >>
            /\ pc' = "hold_sleep"
    /\ UNCHANGED << flagVars, settingsObjVars, inputObjVars, ActuatorDesired, cbPending, queue,
                    ActuatorCommandReadOnly, servo_mode, mixerCacheVars,
                    actuatorSettings, actuator_interlock, normStatics, desired_vect, desired,
                    exp_time, tickLocals, systime, pos_age >>

\* line 761: actuator_interlock = ACTUATOR_INTERLOCK_STOPPED
T_HoldWrite ==
    /\ pc = "hold_write"
    /\ actuator_interlock' = INTERLOCK_STOPPED
    /\ iter' = [iter EXCEPT !.stopped = TRUE]
    /\ pc' = "hold_sleep"
    /\ UNCHANGED << flagVars, settingsObjVars, inputObjVars, ActuatorDesired, cbPending, queue,
                    outVars, ActuatorCommandReadOnly, servo_mode, mixerCacheVars,
                    actuatorSettings, normStatics, desired_vect, desired,
                    this_systime, exp_time, tickLocals, systime, last_output, pos_age >>

\* lines 765-766: PIOS_Thread_Sleep(3) returned after `elapse` ms
T_HoldSleep(elapse) ==
    /\ pc = "hold_sleep"
    /\ \E d \in elapse :
          /\ systime' = UAdd(systime, d)
          /\ pos_age' = IF pos_age < 0 THEN pos_age ELSE AgeUp(pos_age, d, PosAgeCap)
          /\ iter' = [iter EXCEPT !.hold_age = AgeUp(@, d, HoldAgeCap)]
    /\ pc' = "hold_while"
    /\ UNCHANGED << flagVars, settingsObjVars, inputObjVars, ActuatorDesired, cbPending, queue,
                    outVars, ActuatorCommandReadOnly, servo_mode, mixerCacheVars,
                    actuatorSettings, actuator_interlock, normStatics, desired_vect, desired,
                    this_systime, exp_time, tickLocals, last_output >>

\* normalize_input_data(), lines 590-593: ActuatorDesiredGet, then the
\* flight_status_updated test and FlightStatusGet
T_NormFlightStatus ==
    /\ pc = "norm"
    /\ desired' = ActuatorDesired
    /\ IF flight_status_updated
       THEN /\ flightStatus' = FlightStatus
            /\ pc' = "fs_clear"
       ELSE /\ UNCHANGED flightStatus
            /\ pc' = "norm_mc"
    /\ UNCHANGED << flagVars, settingsObjVars, inputObjVars, ActuatorDesired, cbPending, queue,
                    outVars, ActuatorCommandReadOnly, servo_mode, mixerCacheVars,
                    actuatorSettings, actuator_interlock, manual_throt, last_pos_throttle_time,
                    desired_vect, this_systime, exp_time, tickLocals, systime, last_output,
                    iter, pos_age >>

\* line 594: flight_status_updated = false
T_FlightStatusClear ==
    /\ pc = "fs_clear"
    /\ flight_status_updated' = FALSE
    /\ pc' = "norm_mc"
    /\ UNCHANGED << manual_control_cmd_updated, actuator_settings_updated,
                    mixer_settings_updated, settingsObjVars, inputObjVars, ActuatorDesired,
                    cbPending, queue, outVars, ActuatorCommandReadOnly, servo_mode,
                    mixerCacheVars, actuatorSettings, actuator_interlock, normStatics,
                    desired_vect, desired, this_systime, exp_time, tickLocals, systime,
                    last_output, iter, pos_age >>

\* a variant that also reloads the ActuatorSettings copy in the tick
T_NormManual_reload ==
    /\ pc = "norm_mc"
    /\ actuatorSettings' = ActuatorSettings
    /\ IF manual_control_cmd_updated
       THEN /\ manual_throt' = ManualControlCommand.Throttle
            /\ pc' = "mc_clear"
       ELSE /\ UNCHANGED manual_throt
            /\ pc' = "tick"
    /\ UNCHANGED << flagVars, settingsObjVars, inputObjVars, ActuatorDesired, cbPending, queue,
                    outVars, ActuatorCommandReadOnly, servo_mode, mixerCacheVars,
                    actuator_interlock, flightStatus, last_pos_throttle_time,
                    desired_vect, desired, this_systime, exp_time, tickLocals, systime,
                    last_output, iter, pos_age >>

\* lines 597-600: the manual_control_cmd_updated test and ThrottleGet
T_NormManual ==
    /\ pc = "norm_mc"
    /\ IF manual_control_cmd_updated
       THEN /\ manual_throt' = ManualControlCommand.Throttle
            /\ pc' = "mc_clear"
       ELSE /\ UNCHANGED manual_throt
            /\ pc' = "tick"
    /\ UNCHANGED << flagVars, settingsObjVars, inputObjVars, ActuatorDesired, cbPending, queue,
                    outVars, ActuatorCommandReadOnly, servo_mode, mixerCacheVars,
                    actuatorSettings, actuator_interlock, flightStatus, last_pos_throttle_time,
                    desired_vect, desired, this_systime, exp_time, tickLocals, systime,
                    last_output, iter, pos_age >>

\* lines 601-603: manual_control_cmd_updated = false, AccessoryGet into the
\* accessory slots of desired_vect
T_ManualClear ==
    /\ pc = "mc_clear"
    /\ manual_control_cmd_updated' = FALSE
    /\ desired_vect' = [j \in Columns |->
                          IF j >= COL_ACCESSORY0
                          THEN ManualControlCommand.Accessory[j - COL_ACCESSORY0 + 1]
                          ELSE desired_vect[j]]
    /\ pc' = "tick"
    /\ UNCHANGED << flight_status_updated, actuator_settings_updated,
                    mixer_settings_updated, settingsObjVars, inputObjVars, ActuatorDesired,
                    cbPending, queue, outVars, ActuatorCommandReadOnly, servo_mode,
                    mixerCacheVars, actuatorSettings, actuator_interlock, normStatics,
                    desired, this_systime, exp_time, tickLocals, systime,
                    last_output, iter, pos_age >>

\* a variant of the tick that programs the computed values although the
\* object is read-only
T_Tick_program_computed ==
    /\ pc = "tick"
    /\ LET n   == normalize_input_data(this_systime)
           mv  == matrix_mul(motor_mixer, n.desired_vect)
           pp  == post_process(mv, n.armed, n.spin_while_armed, n.stabilize_now)
       IN  /\ armed' = n.armed
           /\ spin_while_armed' = n.spin_while_armed
           /\ stabilize_now' = n.stabilize_now
           /\ throttle_val' = n.throttle_val
           /\ last_pos_throttle_time' = n.last_pos_throttle_time
           /\ desired_vect' = n.desired_vect
           /\ pos_age' = IF n.armed /\ RGt(throttle_source, ZERO) THEN 0 ELSE pos_age
           /\ IF unknown_type
              THEN /\ set_failsafe
                   /\ motor_vect' = mv
                   /\ iter' = [iter EXCEPT !.kind = "fatal", !.pubs = CountUp(@),
                                            !.failsafes = CountUp(@)]
                   /\ pc' = "halted"
              ELSE /\ motor_vect' = pp.motor_vect
                   /\ IF ~ActuatorCommandReadOnly
                      THEN /\ ActuatorCommand' = ActuatorCommandChannelSet(ActuatorCommand, pp.Channel)
                           /\ servo' = pp.Channel
                           /\ iter' = [iter EXCEPT !.kind = "tick", !.pubs = CountUp(@)]
                      ELSE /\ UNCHANGED ActuatorCommand
                           /\ servo' = pp.Channel
                           /\ iter' = [iter EXCEPT !.kind = "tick", !.read_only = TRUE]
                   /\ alarm' = ALARM_CLEARED
                   /\ last_output' = "tick"
                   /\ pc' = "loop_top"
    /\ UNCHANGED << flagVars, settingsObjVars, inputObjVars, ActuatorDesired, cbPending, queue,
                    ActuatorCommandReadOnly, servo_mode, mixerCacheVars, actuatorSettings,
                    actuator_interlock, manual_throt, flightStatus, desired, this_systime,
                    exp_time, systime >>

\* a variant of the tick whose PIOS_Assert(0) returns: after set_failsafe
\* the task goes on with its loop
T_Tick_assert_off ==
    /\ pc = "tick"
    /\ LET n   == normalize_input_data(this_systime)
           mv  == matrix_mul(motor_mixer, n.desired_vect)
           pp  == post_process(mv, n.armed, n.spin_while_armed, n.stabilize_now)
       IN  /\ armed' = n.armed
           /\ spin_while_armed' = n.spin_while_armed
           /\ stabilize_now' = n.stabilize_now
           /\ throttle_val' = n.throttle_val
           /\ last_pos_throttle_time' = n.last_pos_throttle_time
           /\ desired_vect' = n.desired_vect
           /\ pos_age' = IF n.armed /\ RGt(throttle_source, ZERO) THEN 0 ELSE pos_age
           /\ IF unknown_type
              THEN /\ set_failsafe
                   /\ motor_vect' = mv
                   /\ iter' = [iter EXCEPT !.kind = "fatal", !.pubs = CountUp(@),
                                            !.failsafes = CountUp(@)]
                   /\ pc' = "loop_top"
              ELSE /\ motor_vect' = pp.motor_vect
                   /\ IF ~ActuatorCommandReadOnly
                      THEN /\ ActuatorCommand' = ActuatorCommandChannelSet(ActuatorCommand, pp.Channel)
                           /\ servo' = pp.Channel
                           /\ iter' = [iter EXCEPT !.kind = "tick", !.pubs = CountUp(@)]
                      ELSE /\ UNCHANGED ActuatorCommand
                           /\ servo' = ActuatorCommand.Channel
                           /\ iter' = [iter EXCEPT !.kind = "tick", !.read_only = TRUE]
                   /\ alarm' = ALARM_CLEARED
                   /\ last_output' = "tick"
                   /\ pc' = "loop_top"
    /\ UNCHANGED << flagVars, settingsObjVars, inputObjVars, ActuatorDesired, cbPending, queue,
                    ActuatorCommandReadOnly, servo_mode, mixerCacheVars, actuatorSettings,
                    actuator_interlock, manual_throt, flightStatus, desired, this_systime,
                    exp_time, systime >>

\* lines 606-648 of normalize_input_data(), the matrix multiply (793), and
\* post_process_scale_and_commit() (806) with AlarmsClear (813).  An unknown
\* row type ends in set_failsafe() and PIOS_Assert(0): the task halts.
T_Tick ==
    /\ pc = "tick"
    /\ LET n   == normalize_input_data(this_systime)
           mv  == matrix_mul(motor_mixer, n.desired_vect)
           pp  == post_process(mv, n.armed, n.spin_while_armed, n.stabilize_now)
       IN  /\ armed' = n.armed
           /\ spin_while_armed' = n.spin_while_armed
           /\ stabilize_now' = n.stabilize_now
           /\ throttle_val' = n.throttle_val
           /\ last_pos_throttle_time' = n.last_pos_throttle_time
           /\ desired_vect' = n.desired_vect
           /\ pos_age' = IF n.armed /\ RGt(throttle_source, ZERO) THEN 0 ELSE pos_age
           /\ IF unknown_type
              THEN /\ set_failsafe
                   /\ motor_vect' = mv
                   /\ iter' = [iter EXCEPT !.kind = "fatal", !.pubs = CountUp(@),
                                            !.failsafes = CountUp(@)]
                   /\ pc' = "halted"
              ELSE /\ motor_vect' = pp.motor_vect
                   /\ IF ~ActuatorCommandReadOnly
                      THEN /\ ActuatorCommand' = ActuatorCommandChannelSet(ActuatorCommand, pp.Channel)
                           /\ servo' = pp.Channel
                           /\ iter' = [iter EXCEPT !.kind = "tick", !.pubs = CountUp(@)]
                      ELSE /\ UNCHANGED ActuatorCommand
                           /\ servo' = ActuatorCommand.Channel
                           /\ iter' = [iter EXCEPT !.kind = "tick", !.read_only = TRUE]
                   /\ alarm' = ALARM_CLEARED
                   /\ last_output' = "tick"
                   /\ pc' = "loop_top"
    /\ UNCHANGED << flagVars, settingsObjVars, inputObjVars, ActuatorDesired, cbPending, queue,
                    ActuatorCommandReadOnly, servo_mode, mixerCacheVars, actuatorSettings,
                    actuator_interlock, manual_throt, flightStatus, desired, this_systime,
                    exp_time, systime >>

\* ------------------------------------------------------------ environment
\* the callbacks of FlightStatus and ManualControlCommand are connected when
\* the task starts (667-668), those of the settings objects before (158, 164)
Connected(obj) ==
    obj \in {"ActuatorSettings", "MixerSettings"} \/ pc # "start"

Raise(obj) == IF Connected(obj) THEN cbPending \cup {obj} ELSE cbPending

\* UAVObjCbSetFlag: a raised callback runs and sets its flag
E_Callback ==
    /\ \E obj \in cbPending :
          /\ cbPending' = cbPending \ {obj}
          /\ flight_status_updated' =
                IF obj = "FlightStatus" THEN TRUE ELSE flight_status_updated
          /\ manual_control_cmd_updated' =
                IF obj = "ManualControlCommand" THEN TRUE ELSE manual_control_cmd_updated
          /\ actuator_settings_updated' =
                IF obj = "ActuatorSettings" THEN TRUE ELSE actuator_settings_updated
          /\ mixer_settings_updated' =
                IF obj = "MixerSettings" THEN TRUE ELSE mixer_settings_updated
    /\ UNCHANGED << pc, settingsObjVars, inputObjVars, ActuatorDesired, queue, outVars,
                    ActuatorCommandReadOnly, servo_mode, mixerCacheVars, actuatorSettings,
                    actuator_interlock, normStatics, desired_vect, desired, this_systime,
                    exp_time, tickLocals, systime, last_output, iter, pos_age >>

\* ActuatorDesiredSet by the stabilization module: the object changes and an
\* event is queued (dropped when the queue is full)
E_ActuatorDesiredSet(values) ==
    /\ \E v \in values : ActuatorDesired' = v
    /\ queue' = IF queue < MAX_QUEUE_SIZE THEN queue + 1 ELSE queue
    /\ UNCHANGED << pc, flagVars, settingsObjVars, inputObjVars, cbPending, outVars,
                    ActuatorCommandReadOnly, servo_mode, mixerCacheVars, actuatorSettings,
                    actuator_interlock, normStatics, desired_vect, desired, this_systime,
                    exp_time, tickLocals, systime, last_output, iter, pos_age >>

E_FlightStatusSet(values) ==
    /\ \E v \in values \ {FlightStatus} : FlightStatus' = v
    /\ cbPending' = Raise("FlightStatus")
    /\ UNCHANGED << pc, flagVars, settingsObjVars, ManualControlCommand, CameraDesired,
                    ActuatorDesired, queue, outVars,
                    ActuatorCommandReadOnly, servo_mode, mixerCacheVars, actuatorSettings,
                    actuator_interlock, normStatics, desired_vect, desired, this_systime,
                    exp_time, tickLocals, systime, last_output, iter, pos_age >>

E_ManualControlCommandSet(values) ==
    /\ \E v \in values \ {ManualControlCommand} : ManualControlCommand' = v
    /\ cbPending' = Raise("ManualControlCommand")
    /\ UNCHANGED << pc, flagVars, settingsObjVars, FlightStatus, CameraDesired,
                    ActuatorDesired, queue, outVars,
                    ActuatorCommandReadOnly, servo_mode, mixerCacheVars, actuatorSettings,
                    actuator_interlock, normStatics, desired_vect, desired, this_systime,
                    exp_time, tickLocals, systime, last_output, iter, pos_age >>

E_ActuatorSettingsSet(values) ==
    /\ \E v \in values \ {ActuatorSettings} : ActuatorSettings' = v
    /\ cbPending' = Raise("ActuatorSettings")
    /\ UNCHANGED << pc, flagVars, MixerSettings, SystemSettingsAirframeType, inputObjVars,
                    ActuatorDesired, queue, outVars,
                    ActuatorCommandReadOnly, servo_mode, mixerCacheVars, actuatorSettings,
                    actuator_interlock, normStatics, desired_vect, desired, this_systime,
                    exp_time, tickLocals, systime, last_output, iter, pos_age >>

E_MixerSettingsSet(values) ==
    /\ \E v \in values \ {MixerSettings} : MixerSettings' = v
    /\ cbPending' = Raise("MixerSettings")
    /\ UNCHANGED << pc, flagVars, ActuatorSettings, SystemSettingsAirframeType, inputObjVars,
                    ActuatorDesired, queue, outVars,
                    ActuatorCommandReadOnly, servo_mode, mixerCacheVars, actuatorSettings,
                    actuator_interlock, normStatics, desired_vect, desired, this_systime,
                    exp_time, tickLocals, systime, last_output, iter, pos_age >>

\* SystemSettings is written; the module has connected no callback to it
E_AirframeTypeSet(values) ==
    /\ \E v \in values \ {SystemSettingsAirframeType} : SystemSettingsAirframeType' = v
    /\ UNCHANGED << pc, flagVars, ActuatorSettings, MixerSettings, inputObjVars,
                    ActuatorDesired, cbPending, queue, outVars,
                    ActuatorCommandReadOnly, servo_mode, mixerCacheVars, actuatorSettings,
                    actuator_interlock, normStatics, desired_vect, desired, this_systime,
                    exp_time, tickLocals, systime, last_output, iter, pos_age >>

\* the interlock's requester: asks for a stop, and gives the outputs back
\* only after it has seen STOPPED
E_InterlockRequest ==
    /\ actuator_interlock = INTERLOCK_OK
    /\ actuator_interlock' = INTERLOCK_STOPREQUEST
    /\ UNCHANGED << pc, flagVars, settingsObjVars, inputObjVars, ActuatorDesired, cbPending,
                    queue, outVars, ActuatorCommandReadOnly, servo_mode, mixerCacheVars,
                    actuatorSettings, normStatics, desired_vect, desired, this_systime,
                    exp_time, tickLocals, systime, last_output, iter, pos_age >>

E_InterlockRelease ==
    /\ actuator_interlock = INTERLOCK_STOPPED
    /\ actuator_interlock' = INTERLOCK_OK
    /\ UNCHANGED << pc, flagVars, settingsObjVars, inputObjVars, ActuatorDesired, cbPending,
                    queue, outVars, ActuatorCommandReadOnly, servo_mode, mixerCacheVars,
                    actuatorSettings, normStatics, desired_vect, desired, this_systime,
                    exp_time, tickLocals, systime, last_output, iter, pos_age >>

\* the ground station toggles the read-only access flag of ActuatorCommand
E_ReadOnlySet ==
    /\ ActuatorCommandReadOnly' = ~ActuatorCommandReadOnly
    /\ UNCHANGED << pc, flagVars, settingsObjVars, inputObjVars, ActuatorDesired, cbPending,
                    queue, outVars, servo_mode, mixerCacheVars,
                    actuatorSettings, actuator_interlock, normStatics, desired_vect, desired,
                    this_systime, exp_time, tickLocals, systime, last_output, iter, pos_age >>

\* ... and writes channel values of its own while the object is read-only
E_GcsCommandSet(values) ==
    /\ ActuatorCommandReadOnly
    /\ \E v \in values :
          /\ ActuatorCommand.Channel # [n \in Channels |-> v]
          /\ ActuatorCommand' = [ActuatorCommand EXCEPT !.Channel = [n \in Channels |-> v]]
    /\ UNCHANGED << pc, flagVars, settingsObjVars, inputObjVars, ActuatorDesired, cbPending,
                    queue, servo, alarm, ActuatorCommandReadOnly, servo_mode, mixerCacheVars,
                    actuatorSettings, actuator_interlock, normStatics, desired_vect, desired,
                    this_systime, exp_time, tickLocals, systime, last_output, iter, pos_age >>

\* ------------------------------------------------------------------- Init
ZeroChannels == [n \in Channels |-> ZERO]
ZeroVector == [j \in Columns |-> ZERO]
ZeroCurve == << ZERO, ZERO, ZERO, ZERO, ZERO >>

\* a variant in which the update flags start false
InitTask_flags_clear ==
    /\ pc = "start"
    /\ flight_status_updated = FALSE
    /\ manual_control_cmd_updated = FALSE
    /\ actuator_settings_updated = FALSE
    /\ mixer_settings_updated = FALSE
    /\ cbPending = {}
    /\ queue = 0
    /\ ActuatorCommand = [Channel |-> ZeroChannels]
    /\ servo = ZeroChannels
    /\ servo_mode = [ChannelMax |-> ZeroChannels, ChannelMin |-> ZeroChannels]
    /\ alarm = ALARM_UNINITIALISED
    /\ types_mixer = [n \in Channels |-> TYPE_DISABLED]
    /\ motor_mixer = [n \in Channels |-> ZeroVector]
    /\ actuatorSettings =
          [ ChannelMin |-> ZeroChannels, ChannelNeutral |-> ZeroChannels,
            ChannelMax |-> ZeroChannels, MotorsSpinWhileArmed |-> FALSE,
            LowPowerStabilizationMaxTime |-> ZERO,
            LowPowerStabilizationMaxPowerAdd |-> ZERO,
            MotorInputOutputCurveFit |-> 0 ]
    /\ airframe_type = "FixedWing"
    /\ curve1 = ZeroCurve
    /\ curve2 = ZeroCurve
    /\ curve2_src = "Throttle"
    /\ actuator_interlock = INTERLOCK_OK
    /\ manual_throt = MINUS_ONE
    /\ flightStatus = FlightStatusCfg(ARMED_DISARMED, FLIGHTMODE_MANUAL)
    /\ last_pos_throttle_time = 0
    /\ desired_vect = ZeroVector
    /\ desired = DesiredCfg(ZERO, ZERO)
    /\ this_systime = 0
    /\ exp_time = 0
    /\ armed = FALSE
    /\ spin_while_armed = FALSE
    /\ stabilize_now = FALSE
    /\ throttle_val = MINUS_ONE
    /\ motor_vect = ZeroChannels
    /\ last_output = "none"
    /\ iter = IterStart
    /\ pos_age = -1

\* The statics of actuator.c as the C start-up code leaves them (zeroed, but
\* for the explicit initialisers), before actuator_task() runs.
InitTask ==
    /\ pc = "start"
    /\ flight_status_updated = TRUE
    /\ manual_control_cmd_updated = TRUE
    /\ actuator_settings_updated = TRUE
    /\ mixer_settings_updated = TRUE
    /\ cbPending = {}
    /\ queue = 0
    /\ ActuatorCommand = [Channel |-> ZeroChannels]
    /\ servo = ZeroChannels
    /\ servo_mode = [ChannelMax |-> ZeroChannels, ChannelMin |-> ZeroChannels]
    /\ alarm = ALARM_UNINITIALISED
    /\ types_mixer = [n \in Channels |-> TYPE_DISABLED]
    /\ motor_mixer = [n \in Channels |-> ZeroVector]
    /\ actuatorSettings =
          [ ChannelMin |-> ZeroChannels, ChannelNeutral |-> ZeroChannels,
            ChannelMax |-> ZeroChannels, MotorsSpinWhileArmed |-> FALSE,
            LowPowerStabilizationMaxTime |-> ZERO,
            LowPowerStabilizationMaxPowerAdd |-> ZERO,
            MotorInputOutputCurveFit |-> 0 ]
    /\ airframe_type = "FixedWing"
    /\ curve1 = ZeroCurve
    /\ curve2 = ZeroCurve
    /\ curve2_src = "Throttle"
    /\ actuator_interlock = INTERLOCK_OK
    /\ manual_throt = MINUS_ONE
    /\ flightStatus = FlightStatusCfg(ARMED_DISARMED, FLIGHTMODE_MANUAL)
    /\ last_pos_throttle_time = 0
    /\ desired_vect = ZeroVector
    /\ desired = DesiredCfg(ZERO, ZERO)
    /\ this_systime = 0
    /\ exp_time = 0
    /\ armed = FALSE
    /\ spin_while_armed = FALSE
    /\ stabilize_now = FALSE
    /\ throttle_val = MINUS_ONE
    /\ motor_vect = ZeroChannels
    /\ last_output = "none"
    /\ iter = IterStart
    /\ pos_age = -1

\* the steps of the task outside the interlock hold loop, but for the
\* reload of ActuatorSettings
TaskLoop(recv, tmo) ==
    \/ T_Start
    \/ T_StartFailsafe
    \/ T_ActuatorSettingsFlag
    \/ T_MixerSettingsFlag
    \/ T_AirframeGet
    \/ T_ComputeMixer
    \/ T_CurvesGet
    \/ T_Receive(recv)
    \/ T_Timeout(tmo)
    \/ T_InterlockCheck
    \/ T_NormFlightStatus
    \/ T_FlightStatusClear
    \/ T_NormManual
    \/ T_ManualClear
    \/ T_Tick

\* the steps of the interlock hold loop
TaskHold(sleep) ==
    \/ T_HoldWhile
    \/ T_HoldIf
    \/ T_HoldWrite
    \/ T_HoldSleep(sleep)

\* ------------------------------------------------------- specification Spec
\* The output path: ticks, timeouts, arming changes, and a ground station
\* that takes the output object over (read-only) and writes it.  The clock
\* stands still (no blocking call takes time), hang time is off.
OutActuatorSettings == { ActuatorSettingsCfg(k, k = 1, ZERO, 1) : k \in {0, 1} }
OutMixerSettings ==
    { MixerSettingsCfg(kt, 0, "Throttle") : kt \in {0, 6} }
        \cup { MixerSettingsCorrupt(0, 0, "Throttle") }
OutDesired == { DesiredCfg(ONE, Rat(1, 2)), DesiredCfg(ZERO, ZERO) }
OutFlightStatus == { FlightStatusCfg(ARMED_DISARMED, FLIGHTMODE_MANUAL),
                     FlightStatusCfg(ARMED_ARMED, FLIGHTMODE_MANUAL) }
GcsPulse == { RInt(1700) }

Init ==
    /\ InitTask
    /\ ActuatorSettings \in OutActuatorSettings
    /\ MixerSettings \in OutMixerSettings
    /\ SystemSettingsAirframeType = AIRFRAME_QUADX
    /\ ActuatorDesired = DesiredCfg(ZERO, ZERO)
    /\ ManualControlCommand = ManualCfg(ZERO)
    /\ FlightStatus = FlightStatusCfg(ARMED_DISARMED, FLIGHTMODE_MANUAL)
    /\ CameraDesired = [Handle |-> TRUE, Roll |-> Rat(1, 2), Pitch |-> Rat(-3, 2)]
    /\ ActuatorCommandReadOnly = FALSE
    /\ systime = 0

\* The task has the highest priority (TASK_PRIORITY): here the other
\* threads run while it is blocked in PIOS_Queue_Receive, one object write
\* (and its callback) at a time.  The settings objects are not rewritten, so
\* the task has no ActuatorSettings to reload.
TaskBlocked == pc = "wait" /\ cbPending = {} /\ queue = 0

Next ==
    \/ TaskLoop({0}, {0})
    \/ E_Callback
    \/ (TaskBlocked /\ E_ActuatorDesiredSet(OutDesired))
    \/ (TaskBlocked /\ E_FlightStatusSet(OutFlightStatus))
    \/ (TaskBlocked /\ E_ReadOnlySet)
    \/ (TaskBlocked /\ E_GcsCommandSet(GcsPulse))

Spec == Init /\ [][Next]_vars

\* ---------------------------------------------------- properties of Spec
\* a loop iteration has just ended (the task is back at the top of its loop)
\* with a normal tick / with a timeout of the event wait
AfterTick == pc = "loop_top" /\ iter.kind = "tick"
AfterTimeout == pc = "loop_top" /\ iter.kind = "timeout"

MotorChannels == { ct \in Channels : types_mixer[ct] = TYPE_MOTOR }
ServoChannels == { ct \in Channels : types_mixer[ct] = TYPE_SERVO }

\* C1 (as claimed): after every normal tick on which the cached
\* FlightStatus.Armed was not Armed, every Motor channel's servo output is
\* exactly the channel's ChannelMin.
C1_DisarmedMotorsAtMin_Claimed ==
    (AfterTick /\ ~armed) =>
        \A ct \in MotorChannels : servo[ct] = actuatorSettings.ChannelMin[ct]

\* C1 (amended): the same, for the ticks on which ActuatorCommand was not
\* read-only.
C1_DisarmedMotorsAtMin ==
    (AfterTick /\ ~armed /\ ~iter.read_only) =>
        \A ct \in MotorChannels : servo[ct] = actuatorSettings.ChannelMin[ct]

\* a disarmed, published tick with thrust demanded and a motor on a
\* reversed range
C1_Witness ==
    /\ AfterTick /\ ~armed /\ ~iter.read_only
    /\ throttle_val = Rat(1, 2)
    /\ \E ct \in MotorChannels :
          /\ RGt(actuatorSettings.ChannelMin[ct], actuatorSettings.ChannelMax[ct])
          /\ servo[ct] = actuatorSettings.ChannelMin[ct]

InChannelRange(v, ct) ==
    LET lo == RMin(actuatorSettings.ChannelMin[ct], actuatorSettings.ChannelMax[ct])
        hi == RMax(actuatorSettings.ChannelMin[ct], actuatorSettings.ChannelMax[ct])
    IN  ~IsNaN(v) /\ RLe(lo, v) /\ RLe(v, hi)

\* C6: once the task has programmed the outputs, every servo pulse width and
\* every published ActuatorCommand.Channel value lies between the channel's
\* ChannelMin and ChannelMax.
C6_PulseWidthBounds ==
    last_output # "none" =>
        \A ct \in Channels :
            /\ InChannelRange(servo[ct], ct)
            /\ InChannelRange(ActuatorCommand.Channel[ct], ct)

\* --------------------------------------------------- specification SpecHold
\* The interlock handshake with its timing: a requester that asks for a stop
\* when the flag is Ok and gives the outputs back when it has seen Stopped,
\* at any point of the task's run; the sleeps of the hold loop take 3 or 4 ms
\* and the clock starts shortly before it wraps.  A hold is followed for
\* HoldAgeCap ms.
HoldSleep == { INTERLOCK_SLEEP_MS, INTERLOCK_SLEEP_MS + 1 }
HoldDesired == { DesiredCfg(ZERO, Rat(1, 2)) }

InitHold ==
    /\ InitTask
    /\ ActuatorSettings = ActuatorSettingsCfg(0, FALSE, ZERO, 1)
    /\ MixerSettings = MixerSettingsCfg(0, 0, "Throttle")
    /\ SystemSettingsAirframeType = AIRFRAME_QUADX
    /\ ActuatorDesired = DesiredCfg(ZERO, ZERO)
    /\ ManualControlCommand = ManualCfg(ZERO)
    /\ FlightStatus = FlightStatusCfg(ARMED_ARMED, FLIGHTMODE_MANUAL)
    /\ CameraDesired = [Handle |-> FALSE, Roll |-> ZERO, Pitch |-> ZERO]
    /\ ActuatorCommandReadOnly = FALSE
    /\ systime = SYSTIME_MOD - (INTERLOCK_HOLD_MS \div 2)

NextHold ==
    \/ TaskLoop({0}, {0})
    \/ TaskHold({ d \in HoldSleep : iter.hold_age + d <= HoldAgeCap })
    \/ (TaskBlocked /\ E_ActuatorDesiredSet(HoldDesired))
    \/ E_InterlockRequest
    \/ E_InterlockRelease

SpecHold == InitHold /\ [][NextHold]_vars

\* ------------------------------------------------ properties of SpecHold
\* a step of the task (every step of the task moves pc, no other step does)
TaskStep == pc' # pc

\* C4: every change of the interlock flag made by a step of the task is from
\* StopRequest to Stopped (the task writes nothing but Stopped, and never over
\* an Ok), and the task's test of the hold loop leaves the loop exactly when
\* it reads Ok.
C4_InterlockOwnership ==
    /\ [][(TaskStep /\ actuator_interlock' # actuator_interlock) =>
              (actuator_interlock = INTERLOCK_STOPREQUEST
                  /\ actuator_interlock' = INTERLOCK_STOPPED)]_vars
    /\ [][(TaskStep /\ pc = "hold_write") => actuator_interlock' = INTERLOCK_STOPPED]_vars
    /\ [][(TaskStep /\ pc \in {"hold_while", "hold_if", "hold_write", "hold_sleep"}) =>
              ((pc' = "loop_top") <=> (pc = "hold_while" /\ actuator_interlock = INTERLOCK_OK))]_vars

\* the handshake has run through: the task held, wrote Stopped after the hold
\* time, and has left the hold loop on the requester's Ok
C4_Witness ==
    /\ pc = "loop_top" /\ iter.kind = "hold"
    /\ iter.failsafes >= 1 /\ iter.hold_age > INTERLOCK_HOLD_MS
    /\ actuator_interlock = INTERLOCK_OK

\* C5 (as claimed): a pass of the hold loop that finds StopRequest goes on to
\* write Stopped exactly when the time sampled on it is at least 100 ms after
\* the tick's time; a set_failsafe call precedes the write.
C5_HoldTime_Claimed ==
    /\ [][(TaskStep /\ pc = "hold_if" /\ actuator_interlock = INTERLOCK_STOPREQUEST) =>
              ((pc' = "hold_write") <=> (iter.hold_age >= INTERLOCK_HOLD_MS))]_vars
    /\ [](pc = "hold_write" => iter.failsafes >= 1)

\* C5 (amended): ... exactly when the time sampled on it is more than 100 ms
\* after the tick's time; a set_failsafe call precedes the write.
C5_HoldTime ==
    /\ [][(TaskStep /\ pc = "hold_if" /\ actuator_interlock = INTERLOCK_STOPREQUEST) =>
              ((pc' = "hold_write") <=> (iter.hold_age > INTERLOCK_HOLD_MS))]_vars
    /\ [](pc = "hold_write" => iter.failsafes >= 1)

\* the task is about to write Stopped, 101 ms after the tick, and the clock
\* has wrapped during the hold
C5_Witness ==
    /\ pc = "hold_write"
    /\ iter.hold_age = INTERLOCK_HOLD_MS + 1
    /\ systime < INTERLOCK_HOLD_MS
    /\ actuator_interlock = INTERLOCK_STOPREQUEST
    /\ last_output = "failsafe"

\* C7 (as claimed): in no loop iteration is ActuatorCommand written more than
\* once.
C7_OnePublication_Claimed == iter.pubs <= 1

\* C7 (amended): in no loop iteration that does not enter the interlock hold
\* is ActuatorCommand written more than once.
C7_OnePublication == iter.kind # "hold" => iter.pubs <= 1

\* a normal tick has ended with its one publication
C7_Witness ==
    /\ AfterTick /\ iter.pubs = 1
    /\ alarm = ALARM_CLEARED
    /\ ActuatorCommand.Channel = servo

\* --------------------------------------------------- specification SpecLive
\* The interlock handshake under fair scheduling of the task: every step of
\* the task that can be taken is taken in the end.  Nothing obliges the
\* stabilization module to write ActuatorDesired, nor the requester to act.
\* The clock is coarse: a sleep of the hold loop takes a quarter of its range.
LiveSleep == { 2 ^ (SYSTIME_BITS - 2) }

TaskLive == TaskLoop({0}, {0}) \/ TaskHold(LiveSleep)

InitLive ==
    /\ InitTask
    /\ ActuatorSettings = ActuatorSettingsCfg(0, FALSE, ZERO, 1)
    /\ MixerSettings = MixerSettingsCfg(0, 0, "Throttle")
    /\ SystemSettingsAirframeType = AIRFRAME_QUADX
    /\ ActuatorDesired = DesiredCfg(ZERO, ZERO)
    /\ ManualControlCommand = ManualCfg(ZERO)
    /\ FlightStatus \in OutFlightStatus
    /\ CameraDesired = [Handle |-> FALSE, Roll |-> ZERO, Pitch |-> ZERO]
    /\ ActuatorCommandReadOnly = FALSE
    /\ systime = 0

NextLive ==
    \/ TaskLive
    \/ E_ActuatorDesiredSet(HoldDesired)
    \/ E_InterlockRequest
    \/ E_InterlockRelease

\* Weak fairness of the task, step by step.  The two steps that compute
\* (the mixer, the tick) are enabled exactly when pc is at them and always
\* move it, so weak fairness of them is that pc does not stay there.
FairTask ==
    /\ WF_vars(pc \notin {"ms_compute", "tick"} /\ TaskLive)
    /\ []<>(pc # "ms_compute")
    /\ []<>(pc # "tick")

SpecLive == InitLive /\ [][NextLive]_vars /\ FairTask

\* the task is where it polls the interlock flag: at the check that follows
\* a received event, or in the hold loop
InterlockPolled ==
    pc \in {"interlock", "hold_while", "hold_if", "hold_write", "hold_sleep"}

StoppedAfterFailsafe ==
    actuator_interlock = INTERLOCK_STOPPED /\ last_output = "failsafe"

FlagsFlightStatus == { FlightStatusCfg(ARMED_ARMED, FLIGHTMODE_MANUAL),
                       FlightStatusCfg(ARMED_DISARMED, FLIGHTMODE_MANUAL) }
FlagsManual == { ManualCfg(ZERO), ManualCfg(ONE) }
FlagsActuatorSettings == { ActuatorSettingsCfg(0, s, ZERO, 1) : s \in BOOLEAN }
FlagsMixerSettings == { MixerSettingsCfg(0, 0, src) : src \in {"Throttle", "Roll"} }

InitFlags ==
    /\ InitTask
    /\ ActuatorSettings = ActuatorSettingsCfg(0, FALSE, ZERO, 1)
    /\ MixerSettings = MixerSettingsCfg(0, 0, "Throttle")
    /\ SystemSettingsAirframeType = AIRFRAME_QUADX
    /\ ActuatorDesired = DesiredCfg(ZERO, Rat(1, 2))
    /\ ManualControlCommand = ManualCfg(ZERO)
    /\ FlightStatus = FlightStatusCfg(ARMED_ARMED, FLIGHTMODE_MANUAL)
    /\ CameraDesired = [Handle |-> FALSE, Roll |-> ZERO, Pitch |-> ZERO]
    /\ ActuatorCommandReadOnly = FALSE
    /\ systime = 0

FlaggedObjects == { "FlightStatus", "ManualControlCommand", "ActuatorSettings", "MixerSettings" }

UpdateFlag(obj) ==
    CASE obj = "FlightStatus" -> flight_status_updated
      [] obj = "ManualControlCommand" -> manual_control_cmd_updated
      [] obj = "ActuatorSettings" -> actuator_settings_updated
      [] obj = "MixerSettings" -> mixer_settings_updated

InFlight(obj) == obj \in cbPending \/ UpdateFlag(obj)

OnlyInFlight(obj) == \A other \in FlaggedObjects \ {obj} : ~InFlight(other)

NextFlags ==
    \/ TaskLoop({0}, {0})
    \/ T_ActuatorSettingsGet
    \/ E_Callback
    \/ (TaskBlocked /\ E_ActuatorDesiredSet(HoldDesired))
    \/ (OnlyInFlight("FlightStatus") /\ E_FlightStatusSet(FlagsFlightStatus))
    \/ (OnlyInFlight("ManualControlCommand") /\ E_ManualControlCommandSet(FlagsManual))
    \/ (OnlyInFlight("ActuatorSettings") /\ E_ActuatorSettingsSet(FlagsActuatorSettings))
    \/ (OnlyInFlight("MixerSettings") /\ E_MixerSettingsSet(FlagsMixerSettings))

SpecFlags == InitFlags /\ [][NextFlags]_vars

\* ------------------------------------------------ properties of SpecFlags
\* the task's cached copy of an object is the object's present value
CacheCurrent(obj) ==
    CASE obj = "FlightStatus" -> flightStatus = FlightStatus
      [] obj = "ManualControlCommand" -> manual_throt = ManualControlCommand.Throttle
      [] obj = "ActuatorSettings" -> actuatorSettings = ActuatorSettings
      [] obj = "MixerSettings" ->
            /\ types_mixer = compute_mixer_types(MixerSettings)
            /\ motor_mixer = compute_mixer_matrix(MixerSettings)
            /\ curve1 = MixerSettings.ThrottleCurve1
            /\ curve2 = MixerSettings.ThrottleCurve2
            /\ curve2_src = MixerSettings.Curve2Source

\* C8: no change of an object is left unread with its flag cleared.  When the
\* task waits for the next event and an object has no change in flight (its
\* flag is clear and no callback of it is outstanding), nothing but a further
\* change of the object will make the task read it again: the cached copy
\* must be the object's value.
C8_NoChangeLost ==
    pc = "wait" =>
        \A obj \in FlaggedObjects : ~InFlight(obj) => CacheCurrent(obj)

\* ----------------------------------------------- specification SpecSettings
\* The settings refresh: ActuatorSettings and MixerSettings are rewritten at
\* any point of the task's run (one change in flight at a time), their
\* callbacks run at any later point, and SystemSettings.AirframeType is
\* rewritten when the task is about to pass the top of its loop.
SettingsAirframe == { AIRFRAME_QUADX, AIRFRAME_HELICP }

NextSettings ==
    \/ TaskLoop({0}, {0})
    \/ T_ActuatorSettingsGet
    \/ E_Callback
    \/ (TaskBlocked /\ E_ActuatorDesiredSet(HoldDesired))
    \/ (OnlyInFlight("ActuatorSettings") /\ E_ActuatorSettingsSet(FlagsActuatorSettings))
    \/ (OnlyInFlight("MixerSettings") /\ E_MixerSettingsSet(FlagsMixerSettings))
    \/ (pc = "loop_top" /\ E_AirframeTypeSet(SettingsAirframe))

SpecSettings == InitFlags /\ [][NextSettings]_vars

\* C10 (amended): at every normal tick, the cached copy of ActuatorSettings
\* and the cache built from MixerSettings are current, unless a change of the
\* object is still in flight (its callback has not run, or has set the flag
\* after the task tested it at the top of the loop).
C10_SettingsRefresh ==
    pc = "tick" =>
        \A obj \in {"ActuatorSettings", "MixerSettings"} :
            ~InFlight(obj) => CacheCurrent(obj)

\* C10 (as claimed): ... and the cached airframe_type is the AirframeType
\* that SystemSettings had when the task last passed the top of the loop.
C10_SettingsRefresh_Claimed ==
    pc = "tick" =>
        /\ \A obj \in {"ActuatorSettings", "MixerSettings"} :
              ~InFlight(obj) => CacheCurrent(obj)
        /\ airframe_type = SystemSettingsAirframeType

\* a tick with both settings objects changed and reloaded
C10_Witness ==
    /\ pc = "tick"
    /\ ActuatorSettings = ActuatorSettingsCfg(0, TRUE, ZERO, 1)
    /\ MixerSettings = MixerSettingsCfg(0, 0, "Roll")
    /\ \A obj \in {"ActuatorSettings", "MixerSettings"} :
          ~InFlight(obj) /\ CacheCurrent(obj)

\* --------------------------------------------------- specification SpecHang
\* Hang time: the vehicle is armed, LowPowerStabilizationMaxTime is
\* HangWindowMs milliseconds, the thrust demand comes and goes, and the
\* clock advances with every blocking receive, over a stretch of time that
\* includes the wrap of the system time.
HangWindowMs == 4
HangSpan == 16
HangStart == SYSTIME_MOD - 3
HangElapse == { 1, 2, 3 }
HangTimes ==
    { UAdd(HangStart, i) : i \in 0 .. HangSpan }
        \cup { USub(UAdd(HangStart, i), FAILSAFE_TIMEOUT_MS) : i \in 0 .. 3 }
HangDesired == { DesiredCfg(ZERO, Rat(1, 2)), DesiredCfg(ZERO, ZERO),
                 DesiredCfg(ZERO, MINUS_ONE) }

InitHang ==
    /\ InitTask
    /\ ActuatorSettings = ActuatorSettingsCfg(0, FALSE, Rat(HangWindowMs, 1000), 1)
    /\ MixerSettings = MixerSettingsCfg(0, 0, "Throttle")
    /\ SystemSettingsAirframeType = AIRFRAME_QUADX
    /\ ActuatorDesired = DesiredCfg(ZERO, ZERO)
    /\ ManualControlCommand = ManualCfg(ZERO)
    /\ FlightStatus = FlightStatusCfg(ARMED_ARMED, FLIGHTMODE_MANUAL)
    /\ CameraDesired = [Handle |-> FALSE, Roll |-> ZERO, Pitch |-> ZERO]
    /\ ActuatorCommandReadOnly = FALSE
    /\ systime = USub(HangStart, FAILSAFE_TIMEOUT_MS)

NextHang ==
    \/ TaskLoop({ d \in HangElapse : UAdd(systime, d) \in HangTimes },
                { d \in {FAILSAFE_TIMEOUT_MS} : UAdd(systime, d) \in HangTimes })
    \/ (TaskBlocked /\ E_ActuatorDesiredSet(HangDesired))

SpecHang == InitHang /\ [][NextHang]_vars

\* C9: with the vehicle armed and a hang-time window of HangWindowMs, after
\* a tick with throttle <= 0 that comes pos_age milliseconds after the latest
\* tick with throttle > 0: stabilize_now is true and the curve input is 0
\* while pos_age is less than the window, and stabilize_now is false from
\* then on.
C9_HangTime ==
    (AfterTick /\ armed /\ RLe(throttle_source, ZERO) /\ pos_age >= 0) =>
        IF pos_age < HangWindowMs
        THEN stabilize_now /\ throttle_val = ZERO
        ELSE ~stabilize_now

\* ---------------------------------------- the alarm (checked under SpecHold)
\* C11: at every return to the top of the main loop the ACTUATOR alarm is
\* Critical exactly when the task's latest output action was set_failsafe and
\* Cleared exactly when it was a completed normal tick; an iteration that
\* timed out or handled the interlock never leaves the alarm cleared.
C11_AlarmTracksOutput ==
    pc = "loop_top" =>
        /\ alarm = ALARM_CRITICAL <=> last_output = "failsafe"
        /\ alarm = ALARM_CLEARED <=> last_output = "tick"
        /\ iter.kind \in {"timeout", "hold"} => alarm # ALARM_CLEARED

\* back at the top after an interlock hold that followed a normal tick
C11_Witness ==
    /\ pc = "loop_top"
    /\ iter.kind = "hold"
    /\ armed
    /\ alarm = ALARM_CRITICAL
    /\ last_output = "failsafe"

\* ------------------------------------- the commit (checked under Spec)
\* C12: after every output action of the task (a normal tick or a
\* set_failsafe call) the pulse widths programmed into the servo outputs are
\* the Channel values of ActuatorCommand as that action published or re-read
\* them.  An output action is a step of the task that changes the outputs or
\* the object: a step that changes neither leaves them as the action before
\* it left them.
C12_CommandMatchesHardware ==
    [][(TaskStep /\ (servo' # servo \/ ActuatorCommand' # ActuatorCommand))
            => servo' = ActuatorCommand'.Channel]_vars

\* a timeout while the object is read-only: the failsafe values, not a
\* ground station's pulse, are in the object and on the outputs
C12_Witness ==
    /\ AfterTimeout
    /\ ActuatorCommandReadOnly
    /\ MotorChannels # {}
    /\ servo = set_failsafe_Channel
    /\ ActuatorCommand.Channel = servo
    /\ \A v \in GcsPulse : servo # [n \in Channels |-> v]

\* C13: a normal tick that finds ActuatorCommand read-only does not write the
\* object, and programs the outputs with the object's Channel values.
C13_ReadOnlyTick ==
    [][(pc = "tick" /\ pc' = "loop_top" /\ ActuatorCommandReadOnly)
            => /\ ActuatorCommand' = ActuatorCommand
               /\ servo' = ActuatorCommand.Channel]_vars

\* after a read-only tick the outputs carry the ground station's values, not
\* the values the tick computed
C13_Witness ==
    /\ AfterTick
    /\ iter.read_only
    /\ \E v \in GcsPulse : servo = [n \in Channels |-> v]
    /\ servo = ActuatorCommand.Channel
    /\ servo # [ct \in Channels |-> scale_channel(motor_vect[ct], ct)]

\* C14: the task halts only in a normal tick that finds a row type outside
\* Disabled, Motor, Servo, CameraRoll, CameraPitch, CameraYaw, and then it
\* has called set_failsafe last: the alarm is Critical and the outputs and
\* the published Channel are the failsafe values, none computed on that
\* tick.  No tick with such a row type completes.
C14_UnknownTypeFatal ==
    /\ pc = "halted" =>
          /\ iter.kind = "fatal"
          /\ unknown_type
          /\ last_output = "failsafe"
          /\ alarm = ALARM_CRITICAL
          /\ servo = set_failsafe_Channel
          /\ ActuatorCommand.Channel = set_failsafe_Channel
    /\ iter.kind = "fatal" => pc = "halted"
    /\ AfterTick => ~unknown_type

\* halted on a corrupt row type, while armed
C14_Witness ==
    /\ pc = "halted"
    /\ unknown_type
    /\ armed
    /\ alarm = ALARM_CRITICAL

\* -------------------------------------------------- specification SpecMixer
\* The mixer cache: the task starts on each of a set of MixerSettings (every
\* rotation of the row types over every rotation of the coefficient rows, so
\* that Motor rows with and without a thrust coefficient occur), builds its
\* cache and runs armed ticks and timeouts on it.
MixerConfigs ==
    { MixerSettingsCfg(kt, kv, "Throttle") :
          kt \in 0 .. (Len(TypeList) - 1), kv \in 0 .. (Len(VectorList) - 1) }

InitMixer ==
    /\ InitTask
    /\ ActuatorSettings = ActuatorSettingsCfg(0, FALSE, ZERO, 1)
    /\ MixerSettings \in MixerConfigs
    /\ SystemSettingsAirframeType = AIRFRAME_QUADX
    /\ ActuatorDesired = DesiredCfg(ZERO, ZERO)
    /\ ManualControlCommand = ManualCfg(ZERO)
    /\ FlightStatus = FlightStatusCfg(ARMED_ARMED, FLIGHTMODE_MANUAL)
    /\ CameraDesired = [Handle |-> FALSE, Roll |-> ZERO, Pitch |-> ZERO]
    /\ ActuatorCommandReadOnly = FALSE
    /\ systime = 0

NextMixer ==
    \/ TaskLoop({0}, {0})
    \/ (TaskBlocked /\ E_ActuatorDesiredSet(OutDesired))

SpecMixer == InitMixer /\ [][NextMixer]_vars

\* the mixer cache has just been rebuilt from MixerSettings
AfterRebuild == pc = "ms_curves"

\* row i of the cache is the configured row, each coefficient divided by
\* MIXER_SCALE
RowAsConfigured(i, cols) ==
    \A j \in cols : motor_mixer[i][j] = Rat(MixerSettings.Vector[i][j], MIXER_SCALE)

\* C15: after every rebuild of the mixer cache a Motor or Servo row holds
\* the configured coefficients divided by 128 in every column, and every
\* other row is zero.
C15_MixerCache ==
    AfterRebuild =>
        \A i \in Channels :
            IF types_mixer[i] \in {TYPE_MOTOR, TYPE_SERVO}
            THEN RowAsConfigured(i, Columns)
            ELSE \A j \in Columns : motor_mixer[i][j] = ZERO

\* C16: after every rebuild of the mixer cache a Motor row whose thrust
\* coefficient is 0 holds its configured roll, pitch and yaw coefficients
\* divided by 128 (no division by the thrust coefficient has spoilt them).
C16_SingularRow ==
    AfterRebuild =>
        \A i \in Channels :
            (types_mixer[i] = TYPE_MOTOR /\ MixerSettings.Vector[i][COL_THROTTLECURVE1] = 0)
                => RowAsConfigured(i, {COL_ROLL, COL_PITCH, COL_YAW})

\* --------------------------------------------------- specification SpecClip
\* Clip management and scaling: an armed vehicle with Motor rows only, on
\* each of a set of mixers (two motors rolling one way and two the other;
\* roll coefficients of 2.0 and 0.5; the rows of VectorList, with a row
\* without thrust and a row of half thrust), every rotation of the pulse
\* ranges over the channels, and thrust and roll demands that change from
\* tick to tick.  Hang time is off.
ClipVectorLists ==
    { << <<128, 0, 128, 0, 0, 0, 0, 0>>, <<128, 0, 128, 0, 0, 0, 0, 0>>,
         <<128, 0, -128, 0, 0, 0, 0, 0>>, <<128, 0, -128, 0, 0, 0, 0, 0>> >>,
      << <<128, 0, 256, 0, 0, 0, 0, 0>>, <<128, 0, -256, 0, 0, 0, 0, 0>>,
         <<128, 0, 64, 0, 0, 0, 0, 0>>, <<128, 0, -64, 0, 0, 0, 0, 0>> >>,
      VectorList }
ClipActuatorSettings ==
    { ActuatorSettingsCfg(k, k % 2 = 1, ZERO, 1 + (k \div 2)) : k \in 0 .. (Len(RangeList) - 1) }
ClipDesired ==
    { DesiredCfg(r, t) : r \in { ZERO, Rat(1, 2), ONE },
                         t \in { ZERO, Rat(1, 4), Rat(9, 20), Rat(1, 2), ONE } }

InitClip ==
    /\ InitTask
    /\ ActuatorSettings \in ClipActuatorSettings
    /\ MixerSettings \in { MixerSettingsMotors(v) : v \in ClipVectorLists }
    /\ SystemSettingsAirframeType = AIRFRAME_QUADX
    /\ ActuatorDesired = DesiredCfg(ZERO, ZERO)
    /\ ManualControlCommand = ManualCfg(ZERO)
    /\ FlightStatus = FlightStatusCfg(ARMED_ARMED, FLIGHTMODE_MANUAL)
    /\ CameraDesired = [Handle |-> FALSE, Roll |-> ZERO, Pitch |-> ZERO]
    /\ ActuatorCommandReadOnly = FALSE
    /\ systime = 0

NextClip ==
    \/ TaskLoop({0}, {0})
    \/ (TaskBlocked /\ E_ActuatorDesiredSet(ClipDesired))

SpecClip == InitClip /\ [][NextClip]_vars

\* ------------------------------------------------- properties of SpecClip
\* the motor values that the latest tick handed to the clip management, and
\* the gain and offset it chose (the caches and desired_vect are as that tick
\* used them)
PreClip == matrix_mul(motor_mixer, desired_vect)
Clip == clip_management(PreClip)

\* the value of a motor after gain, offset and the clamp of negatives,
\* before the curve fit
PreFit(ct) ==
    IF IsNaN(PreClip[ct]) THEN ZERO
    ELSE RMax(ZERO, RAdd(RMul(PreClip[ct], Clip.gain), Clip.offset))

\* scenario S2: armed and stabilizing, LowPowerStabilizationMaxPowerAdd 0.10,
\* pre-clip motor values (1.5, 1.5, -0.5, -0.5)
ScenarioS2 ==
    /\ AfterTick /\ armed /\ stabilize_now
    /\ actuatorSettings.LowPowerStabilizationMaxPowerAdd = Rat(1, 10)
    /\ MotorChannels = 1 .. 4
    /\ PreClip[1] = Rat(3, 2) /\ PreClip[2] = Rat(3, 2)
    /\ PreClip[3] = Rat(-1, 2) /\ PreClip[4] = Rat(-1, 2)

\* C17: in scenario S2 the clip management yields gain 0.5 and offset
\* -0.025, and the motor values before the curve fit are
\* (0.725, 0.725, 0, 0).
C17_ScenarioS2 ==
    ScenarioS2 =>
        /\ Clip.gain = Rat(1, 2)
        /\ Clip.offset = Rat(-1, 40)
        /\ PreFit(1) = Rat(29, 40) /\ PreFit(2) = Rat(29, 40)
        /\ PreFit(3) = ZERO /\ PreFit(4) = ZERO

SameThrust ==
    /\ MotorChannels # {}
    /\ \A c1 \in MotorChannels, c2 \in MotorChannels :
          /\ ~IsNaN(motor_mixer[c1][COL_THROTTLECURVE1])
          /\ RGt(motor_mixer[c1][COL_THROTTLECURVE1], ZERO)
          /\ motor_mixer[c1][COL_THROTTLECURVE1] = motor_mixer[c2][COL_THROTTLECURVE1]

\* the channel's range is ordered: ChannelMax >= ChannelNeutral >= ChannelMin
OrderedRange(ct) ==
    /\ RGe(actuatorSettings.ChannelMax[ct], actuatorSettings.ChannelNeutral[ct])
    /\ RGe(actuatorSettings.ChannelNeutral[ct], actuatorSettings.ChannelMin[ct])

ScaleInputs == { Rat(n, 4) : n \in -6 .. 6 }

\* C20: scale_channel maps +1 to ChannelMax and -1 to ChannelMin, and every
\* value into [ChannelMax, ChannelMin] on a reversed channel
\* (ChannelMin > ChannelMax) and into [ChannelMin, ChannelMax] on any other.
C20_ScaleInversion ==
    pc # "start" =>
        \A ct \in Channels :
            /\ scale_channel(ONE, ct) = actuatorSettings.ChannelMax[ct]
            /\ scale_channel(MINUS_ONE, ct) = actuatorSettings.ChannelMin[ct]
            /\ \A v \in ScaleInputs :
                  IF RGt(actuatorSettings.ChannelMin[ct], actuatorSettings.ChannelMax[ct])
                  THEN /\ RGe(scale_channel(v, ct), actuatorSettings.ChannelMax[ct])
                       /\ RLe(scale_channel(v, ct), actuatorSettings.ChannelMin[ct])
                  ELSE /\ RGe(scale_channel(v, ct), actuatorSettings.ChannelMin[ct])
                       /\ RLe(scale_channel(v, ct), actuatorSettings.ChannelMax[ct])

\* a tick has put a motor on a reversed range at full power: its pulse is
\* ChannelMax, the lower end
C20_Witness ==
    /\ AfterTick /\ armed /\ stabilize_now
    /\ \E ct \in MotorChannels :
          /\ RGt(actuatorSettings.ChannelMin[ct], actuatorSettings.ChannelMax[ct])
          /\ motor_vect[ct] = ONE
          /\ servo[ct] = actuatorSettings.ChannelMax[ct]


\* ----------------------------------------------- specification SpecThrottle
\* Throttle source and arming: a quad or a collective-pitch helicopter with
\* the manual throttle at 0.8, hang time off or HangWindowMs long, motors
\* spinning while armed or not; the flight status goes between armed,
\* armed in failsafe mode and disarmed, the thrust demand comes and goes, and
\* the clock advances as in SpecHang.
InitThrottle ==
    /\ InitTask
    /\ ActuatorSettings \in
          { ActuatorSettingsCfg(0, spin, maxtime, 1) :
                spin \in BOOLEAN, maxtime \in { ZERO, Rat(HangWindowMs, 1000) } }
    /\ MixerSettings = MixerSettingsCfg(0, 0, "Throttle")
    /\ SystemSettingsAirframeType \in { AIRFRAME_QUADX, AIRFRAME_HELICP }
    /\ ActuatorDesired = DesiredCfg(ZERO, Rat(1, 2))
    /\ ManualControlCommand = ManualCfg(Rat(4, 5))
    /\ FlightStatus = FlightStatusCfg(ARMED_ARMED, FLIGHTMODE_MANUAL)
    /\ CameraDesired = [Handle |-> FALSE, Roll |-> ZERO, Pitch |-> ZERO]
    /\ ActuatorCommandReadOnly = FALSE
    /\ systime = USub(HangStart, FAILSAFE_TIMEOUT_MS)

NextThrottle ==
    \/ TaskLoop({ d \in HangElapse : UAdd(systime, d) \in HangTimes },
                { d \in {FAILSAFE_TIMEOUT_MS} : UAdd(systime, d) \in HangTimes })
    \/ E_Callback
    \/ (TaskBlocked /\ E_ActuatorDesiredSet({ DesiredCfg(ZERO, Rat(1, 2)),
                                              DesiredCfg(ZERO, ZERO) }))
    \/ (TaskBlocked /\ E_FlightStatusSet({ FlightStatusCfg(ARMED_ARMED, FLIGHTMODE_MANUAL),
                                           FlightStatusCfg(ARMED_ARMED, FLIGHTMODE_FAILSAFE),
                                           FlightStatusCfg(ARMED_DISARMED, FLIGHTMODE_MANUAL) }))

SpecThrottle == InitThrottle /\ [][NextThrottle]_vars

\* C21: after every normal tick the throttle source is -1 for a helicopter
\* whose cached flight mode is Failsafe, the cached manual throttle for a
\* helicopter in any other mode, and ActuatorDesired.Thrust for every other
\* airframe; the value given to throttle curve 1 is that source, except on a
\* tick that stabilizes without an armed positive source (the hang time),
\* where it is 0; such a tick comes less than the hang-time window after a
\* tick with an armed positive source.
C21_ThrottleSource ==
    AfterTick =>
        LET source == IF airframe_type = AIRFRAME_HELICP
                      THEN IF flightStatus.FlightMode = FLIGHTMODE_FAILSAFE
                           THEN MINUS_ONE ELSE manual_throt
                      ELSE desired.Thrust
            hang == stabilize_now /\ ~(armed /\ RGt(source, ZERO))
        IN  /\ throttle_val = IF hang THEN ZERO ELSE source
            /\ desired_vect[COL_THROTTLECURVE1] = throt_curve(throttle_val, curve1, Len(curve1))
            /\ hang => /\ pos_age >= 0
                       /\ RLt(RInt(pos_age), hangtime_window)

\* the claim as stated: a helicopter in failsafe mode has -1 at curve 1
\* whatever the ticks before
C21_ThrottleSource_Claimed ==
    (AfterTick /\ airframe_type = AIRFRAME_HELICP
               /\ flightStatus.FlightMode = FLIGHTMODE_FAILSAFE) =>
        throttle_val = MINUS_ONE

\* a helicopter in failsafe mode, manual throttle 0.8, after earlier ticks
\* with positive throttle: -1 at curve 1
C21_Witness ==
    /\ AfterTick
    /\ airframe_type = AIRFRAME_HELICP
    /\ flightStatus.FlightMode = FLIGHTMODE_FAILSAFE
    /\ manual_throt = Rat(4, 5)
    /\ pos_age >= 0
    /\ throttle_val = MINUS_ONE

\* C23: after every normal tick, a Motor channel whose value is not the idle
\* value (0 when armed with MotorsSpinWhileArmed, -1 otherwise) belongs to an
\* armed vehicle, and either the throttle source of this tick is positive or
\* the latest tick with an armed positive source is less than
\* 1000 * LowPowerStabilizationMaxTime milliseconds old; with
\* LowPowerStabilizationMaxTime = 0 only a positive source of this tick
\* takes a motor off idle.
C23_MotorsLeaveIdle ==
    AfterTick =>
        \A ct \in MotorChannels :
            LET idle == IF armed /\ spin_while_armed THEN ZERO ELSE MINUS_ONE
                recent == /\ pos_age >= 0
                          /\ RLt(RInt(pos_age),
                                 RMul(RInt(1000), actuatorSettings.LowPowerStabilizationMaxTime))
            IN  motor_vect[ct] # idle =>
                    /\ armed
                    /\ flightStatus.Armed = ARMED_ARMED
                    /\ RGt(throttle_source, ZERO) \/ recent

\* an armed tick without thrust inside the window, motors not spinning while
\* armed: a motor is off its idle value -1
C23_Witness ==
    /\ AfterTick
    /\ armed
    /\ ~spin_while_armed
    /\ RLe(throttle_source, ZERO)
    /\ pos_age \in 1 .. (HangWindowMs - 1)
    /\ \E ct \in MotorChannels : motor_vect[ct] # MINUS_ONE

\* ------------------------------- the stopped task (checked under SpecHold)
HoldLoop == { "hold_while", "hold_if", "hold_write", "hold_sleep" }

\* C22: while the interlock flag reads Stopped the task stays in the hold
\* loop, calls set_failsafe on no pass and changes neither the servo outputs,
\* the servo mode, the published ActuatorCommand nor the alarm; it leaves the
\* hold loop only by reading Ok, and that step programs the servo mode from
\* the cached settings, changes no output and goes to the top of the loop;
\* every output made in an iteration that held is a failsafe output, so the
\* next normal output follows the settings refresh and a received
\* ActuatorDesired event.
C22_NoOutputWhileStopped ==
    /\ [](~iter.while_stopped)
    /\ [][(TaskStep /\ actuator_interlock = INTERLOCK_STOPPED) =>
              (pc \in HoldLoop /\ pc' \in HoldLoop /\ UNCHANGED << outVars, servo_mode >>)]_vars
    /\ [][(TaskStep /\ pc \in HoldLoop /\ pc' \notin HoldLoop) =>
              /\ actuator_interlock = INTERLOCK_OK
              /\ pc' = "loop_top"
              /\ servo_mode' = ServoMode(actuatorSettings)
              /\ UNCHANGED outVars]_vars
    /\ [][(TaskStep /\ iter.kind = "hold") =>
              (last_output' = last_output \/ last_output' = "failsafe")]_vars
    /\ [][(TaskStep /\ pc = "tick") => (iter.kind = "none" /\ ~iter.stopped)]_vars

\* the claim as stated: once the task has written Stopped it calls
\* set_failsafe no more before it has read Ok and left the hold loop
C22_NoOutputWhileStopped_Claimed == ~iter.after_stopped

\* Stopped was written, the requester has set Ok, and the task has left the
\* hold loop by reading it
C22_Witness ==
    /\ pc = "loop_top"
    /\ iter.kind = "hold"
    /\ iter.stopped
    /\ ~iter.after_stopped
    /\ actuator_interlock = INTERLOCK_OK
    /\ last_output = "failsafe"
    /\ servo_mode = ServoMode(actuatorSettings)

\* ------------------------- the caches in a tick (checked under SpecSettings)
\* from the dequeued event to the commit of the tick's output
TickSteps == { "interlock", "norm", "fs_clear", "norm_mc", "mc_clear", "tick" }
\* the reads of the settings: before the loop and at its top
RefreshSteps == { "start", "as_get", "ms_airframe", "ms_compute", "ms_curves" }

\* C24: no step of the task between the dequeuing of an ActuatorDesired event
\* and the commit of the tick's output changes the mixer matrix, the row
\* types, the curves, curve2_src, airframe_type or the ActuatorSettings copy,
\* whatever callbacks run meanwhile; these change only in the loads before
\* the event wait (at startup and at the top of the loop), and never by a
\* step of another thread.
C24_NoMidTickChange ==
    /\ [][(TaskStep /\ pc \in TickSteps) =>
              UNCHANGED << mixerCacheVars, actuatorSettings >>]_vars
    /\ [][(<< mixerCacheVars, actuatorSettings >>' # << mixerCacheVars, actuatorSettings >>) =>
              (TaskStep /\ pc \in RefreshSteps)]_vars

\* a tick committed with the snapshot taken before the wait, ActuatorSettings
\* having changed and its callback having run since
C24_Witness ==
    /\ AfterTick
    /\ actuator_settings_updated
    /\ actuatorSettings # ActuatorSettings
    /\ servo = [ct \in Channels |-> scale_channel(motor_vect[ct], ct)]

\* ------------------------------------ startup (checked under SpecHold)
NoOutputYet ==
    /\ last_output = "none"
    /\ alarm = ALARM_UNINITIALISED
    /\ servo = ZeroChannels
    /\ ActuatorCommand.Channel = ZeroChannels

\* C25: until its first output action the task is in its startup code and
\* has changed no output; the first output action is the set_failsafe before
\* the main loop, made with the ActuatorSettings copy loaded and the alarm
\* set Critical; every output action outside a normal tick is a failsafe
\* action, and a normal tick is entered only from a received ActuatorDesired
\* event with the interlock read Ok; at every normal tick, the first
\* included, the ActuatorSettings copy, the mixer matrix and row types, the
\* curves, curve2_src, airframe_type and the FlightStatus copy have been
\* read from their objects.
C25_SafeStartup ==
    /\ [](pc \in {"start", "start_failsafe"} <=> last_output = "none")
    /\ [](last_output = "none" => NoOutputYet)
    /\ [][(last_output = "none" /\ last_output' # "none") =>
              /\ pc = "start_failsafe" /\ pc' = "loop_top"
              /\ actuatorSettings = ActuatorSettings
              /\ last_output' = "failsafe"
              /\ alarm' = ALARM_CRITICAL
              /\ servo' = set_failsafe_Channel]_vars
    /\ [][(outVars' # outVars \/ last_output' # last_output) =>
              /\ TaskStep
              /\ pc = "tick" \/ (last_output' = "failsafe" /\ alarm' = ALARM_CRITICAL)]_vars
    /\ [][(TaskStep /\ pc' = "interlock") => (pc = "wait" /\ queue' = queue - 1)]_vars
    /\ [][(TaskStep /\ pc' = "norm") =>
              (pc = "interlock" /\ actuator_interlock = INTERLOCK_OK)]_vars
    /\ [][(TaskStep /\ pc' = "tick") => pc \in {"norm_mc", "mc_clear"}]_vars
    /\ [](pc \in {"norm_mc", "mc_clear", "tick"} =>
              /\ actuatorSettings = ActuatorSettings
              /\ airframe_type = SystemSettingsAirframeType
              /\ types_mixer = compute_mixer_types(MixerSettings)
              /\ motor_mixer = compute_mixer_matrix(MixerSettings)
              /\ curve1 = MixerSettings.ThrottleCurve1
              /\ curve2 = MixerSettings.ThrottleCurve2
              /\ curve2_src = MixerSettings.Curve2Source
              /\ flightStatus = FlightStatus)

\* the first normal tick has been made: every update flag has been served
\* and the alarm is cleared
C25_Witness ==
    /\ AfterTick
    /\ last_output = "tick"
    /\ alarm = ALARM_CLEARED
    /\ ~flight_status_updated /\ ~manual_control_cmd_updated
    /\ ~actuator_settings_updated /\ ~mixer_settings_updated
    /\ flightStatus = FlightStatus
    /\ curve1 = MixerSettings.ThrottleCurve1

====
